---- MODULE Spec2Model ----
(***************************************************************************)
(* Post scheduler: the Redis sorted-set scheduling queue                   *)
(* (scheduler.Queue), the polling Worker with its retry state machine,     *)
(* the posts table operations of db.DB that they use, the PostHandler      *)
(* Create / Update / Delete endpoints that feed the queue, and the         *)
(* Notifier that fans events out to subscribers within a process and,      *)
(* over Redis pub/sub, between processes.                                  *)
(*                                                                         *)
(* Every database statement, every Redis command and every channel send is *)
(* one atomic step; the steps of the Workers, of the handlers, of the      *)
(* goroutines the handlers start, of the Notify calls and of the relays     *)
(* interleave freely.  Database and Redis calls succeed, except those that *)
(* a Worker makes with a cancelled context.                                *)
(*                                                                         *)
(* Time is counted in clock ticks.  TicksPerSecond ticks make one second   *)
(* (Redis scores are whole Unix seconds, database timestamps keep the      *)
(* sub-second part) and SecondsPerMinute seconds make one backoff minute   *)
(* (60 in time.Minute; scaled down to keep the clock small).               *)
(*                                                                         *)
(* mockPublish as shipped returns nil.  Spec, SpecRetry and SpecStop let   *)
(* the publish operation report a failure as well, which is what           *)
(* publishPost and handlePublishError are written for; LiveSpec keeps the  *)
(* shipped one.                                                            *)
(*                                                                         *)
(* The Notify calls of the handlers and of the Worker put nothing in the   *)
(* posts table or in the queue; what a Notify call does is in the Notifier *)
(* part (SpecNotify, SpecRelay), where any process calls Notify for any    *)
(* user.  SpecQueue has the operations of the Queue called one at a time.  *)
(*                                                                         *)
(* Failing calls have their own parts: SpecLost loses the queue write of a *)
(* create, SpecFaulty lets any call of publishPost return an error,        *)
(* SpecQueueErr makes Redis fail under the Queue, and SpecBus puts         *)
(* payloads that do not decode on the pub/sub channel.                     *)
(*                                                                         *)
(* StreamPosts (SpecStream, SpecAttach) is the request loop of the SSE     *)
(* handler: its two queries return any two lists of rows or an error, its  *)
(* writes succeed or fail, and its tickers fire at any time.  SpecHalt has *)
(* the Run loop of one Worker with its ticker beside one stream, to watch  *)
(* both under cancellation: there a loop that waits in select with its     *)
(* context done takes a case before its ticker fires again.                *)
(*                                                                         *)
(* The router's middleware has its own parts.  SpecRate is the RateLimiter *)
(* on the Redis counters of a few keys, with Limit and Window scaled down  *)
(* and the pipeline failing in any of its commands.  SpecAuth has Login,   *)
(* Logout, the three steps of Refresh and the Auth middleware over the     *)
(* token pairs of JWTService and the Redis blacklist; a token is a record  *)
(* of method, claims and signature, and the calls on the blacklist in      *)
(* Logout and Refresh may fail.                                            *)
(***************************************************************************)
EXTENDS Integers, Sequences, FiniteSets, TLC

\* ---------------------------------------------------------------- bounds
NumPosts == 2
NumWorkers == 2
NumRequests == 3
MaxTime == 2
MaxRetryTime == 12
MaxAhead == 1
TicksPerSecond == 2
SecondsPerMinute == 1
NumProcs == 2
NumUsers == 2
NumChans == 2
MaxNotify == 2
MaxReceive == 1
MaxLimit == 2
NumStreams == 1
MaxMalformed == 1
MaxStamp == 2
MaxAfter == 3
NumKeys == 2
MaxHits == 3
MaxRateTime == 4
Limit == 2
NumAuthCalls == 2
MaxPairs == 3
MaxAuthTime == 3
AccessTokenTTL == 2
RefreshTokenTTL == 3

\* ------------------------------------------------------ program constants
MaxRetries == 3
BatchLimit == 100
ChanCap == 10

PostIds == 1..NumPosts
WorkerIds == 1..NumWorkers
RequestIds == 1..NumRequests
Time == 0..MaxTime
Procs == 1..NumProcs
Users == 1..NumUsers
Chans == 1..NumChans
NotifyIds == 1..MaxNotify
Streams == 1..NumStreams
RateKeys == 1..NumKeys

Minute == SecondsPerMinute * TicksPerSecond

VARIABLES
  now,        \* the wall clock, in ticks
  posts,      \* the posts table: id -> row, NoRow when the id has no row
  nextId,     \* how many rows have ever been inserted (ids are never reused)
  queue,      \* the sorted set posts:scheduled: member -> score
  enqueued,   \* ids ever added to the sorted set
  wpc,        \* per worker: where it is in processDuePosts / publishPost
  wresults,   \* per worker: the range read of GetDuePosts still to ZREM
  wbatch,     \* per worker: the ids claimed by GetDuePosts, still to process
  wpost,      \* per worker: the row loaded by GetPostForRetry
  wretry,     \* per worker: nextRetryAt computed by handlePublishError
  greq,       \* per HTTP request: not yet made (new), the queue call its
              \* goroutine still owes, or done
  execLog,    \* per post: the outcomes of the publish invocations so far
  delays,     \* per post: the backoff minutes of the retries scheduled so far
  effects,    \* per post: what the Workers did for it after the publish
              \* operation, in order (published, invalidate, notify, failed)
  cancelled,  \* the Worker's context has been cancelled
  subscribers,\* per process and user: n.subscribers[userID], a list of channels
  chans,      \* per channel: made or not, open or closed, its buffer
  inbox,      \* per process: the messages on n.pubsub.Channel() not yet read
  ncall,      \* per Notify call: where it is, and what it has done
  relay,      \* per process: where listenRedis is, and what it has done
  panicked,   \* a send on a closed channel has happened
  qcall,      \* the last call made on the Queue by a single caller
  wclaimed,   \* per worker: the ids that the GetDuePosts call of the pass in
              \* progress returned
  ticker,     \* per worker: Run has a pass to make, the one of its start
              \* or that of a tick waiting in ticker.C
  wafter,     \* per worker: the passes started since the context was cancelled
  rlog,       \* per process: what listenRedis did with each message it took
  streams,    \* per StreamPosts request: where it is, its last hashes, its
              \* tickers, and what it has seen and pushed
  counters,   \* per rate-limit key: the Redis counter and when it expires
  served,     \* per rate-limit key: when a request was passed on to the
              \* handler
  rlcall,     \* the last request that went through RateLimiter
  blacklist,  \* the Redis keys blacklist:<jti>: jti -> when the key expires
  pairs,      \* the token pairs that GenerateTokenPair has issued, in order
  acall       \* per auth request: the token it carries, where it is, its
              \* answer

nvars == <<subscribers, chans, inbox, ncall, relay, panicked>>

\* what only the Run loop, the relay of malformed messages and StreamPosts
\* change
\* what RateLimiter and the AuthHandler keep
mvars == <<counters, served, rlcall, blacklist, pairs, acall>>

hvars == <<ticker, wafter, rlog, streams, mvars>>

vars == <<now, posts, nextId, queue, enqueued, wpc, wresults, wbatch, wpost,
          wretry, greq, execLog, delays, effects, cancelled, nvars, qcall,
          wclaimed, hvars>>

wvars == <<wpc, wresults, wbatch, wpost, wretry, wclaimed>>

\* what the clock and the PostHandler leave alone
others == <<effects, cancelled, nvars, qcall, hvars>>

\* ------------------------------------------------------------- posts rows
NULL == <<>>

NoRow == [status |-> "none", scheduled_at |-> 0, retry_count |-> 0,
          next_retry_at |-> NULL]

Exists(tbl, id) == tbl[id].status # "none"

\* INSERT INTO posts ... : status defaults to scheduled, retry_count to 0
CreatePost(tbl, id, scheduledAt) ==
  [tbl EXCEPT ![id] = [status |-> "scheduled", scheduled_at |-> scheduledAt,
                       retry_count |-> 0, next_retry_at |-> NULL]]

UpdatePost_ResetRetry(tbl, id, scheduledAt) ==
  IF tbl[id].status = "scheduled"
  THEN [tbl EXCEPT ![id].scheduled_at =
          IF scheduledAt = NULL THEN @ ELSE scheduledAt[1],
                   ![id].retry_count = 0]
  ELSE tbl

\* UPDATE posts SET scheduled_at = COALESCE($6, scheduled_at)
\*   WHERE id = $1 AND status = 'scheduled'      (scheduledAt is NULL or <<t>>)
UpdatePost(tbl, id, scheduledAt) ==
  IF tbl[id].status = "scheduled"
  THEN [tbl EXCEPT ![id].scheduled_at =
          IF scheduledAt = NULL THEN @ ELSE scheduledAt[1]]
  ELSE tbl

\* DELETE FROM posts WHERE id = $1 AND status = 'scheduled'
DeletePost(tbl, id) ==
  IF tbl[id].status = "scheduled" THEN [tbl EXCEPT ![id] = NoRow] ELSE tbl

\* UPDATE posts SET status = 'published' WHERE id = $1 AND status = 'scheduled'
PublishPost(tbl, id) ==
  IF tbl[id].status = "scheduled"
  THEN [tbl EXCEPT ![id].status = "published"]
  ELSE tbl

\* ... RETURNING id, ...: the row PublishPost returns, nil on pgx.ErrNoRows
PublishPostReturning_Always(tbl, id) == <<id>>

PublishPostReturning(tbl, id) ==
  IF tbl[id].status = "scheduled" THEN <<id>> ELSE NULL

\* UPDATE posts SET status = 'failed', last_error = $2 WHERE id = $1
MarkPostFailed(tbl, id) ==
  IF Exists(tbl, id) THEN [tbl EXCEPT ![id].status = "failed"] ELSE tbl

\* UPDATE posts SET retry_count = retry_count + 1, next_retry_at = $3
\*   WHERE id = $1 AND status = 'scheduled'
ScheduleRetry(tbl, id, nextRetryAt) ==
  IF tbl[id].status = "scheduled"
  THEN [tbl EXCEPT ![id].retry_count = @ + 1,
                   ![id].next_retry_at = <<nextRetryAt>>]
  ELSE tbl

\* SELECT ... FROM posts WHERE id = $1
GetPostForRetry(tbl, id) == tbl[id]

\* ------------------------------------------------------- the sorted set
\* time.Time.Unix(): whole seconds since the epoch
Unix(t) == t \div TicksPerSecond

ZAdd(q, member, score) ==
  [m \in DOMAIN q \cup {member} |-> IF m = member THEN score ELSE q[m]]

ZRem_Keep(q, member) == q

ZRem(q, member) == [m \in DOMAIN q \ {member} |-> q[m]]

\* the member that a sorted set lists first: lowest score, then lowest member
ZFirst(q, S) ==
  CHOOSE m \in S : \A o \in S :
    \/ q[m] < q[o]
    \/ q[m] = q[o] /\ m <= o

RECURSIVE ZSorted(_, _)
ZSorted(q, S) ==
  IF S = {} THEN <<>>
  ELSE LET m == ZFirst(q, S) IN <<m>> \o ZSorted(q, S \ {m})

Take_All(s, n) == s

Take(s, n) == IF Len(s) <= n THEN s ELSE SubSeq(s, 1, n)

ZRangeByScore_Exclusive(q, max, count) ==
  Take(ZSorted(q, {m \in DOMAIN q : q[m] < max}), count)

\* ZRANGEBYSCORE key -inf max LIMIT 0 count
ZRangeByScore(q, max, count) ==
  Take(ZSorted(q, {m \in DOMAIN q : q[m] <= max}), count)

Enqueue_XX(q, postID, scheduledAt) ==
  IF postID \in DOMAIN q THEN ZAdd(q, postID, Unix(scheduledAt)) ELSE q

Enqueue_NX(q, postID, scheduledAt) ==
  IF postID \in DOMAIN q THEN q ELSE ZAdd(q, postID, Unix(scheduledAt))

\* Queue.Enqueue: ZADD key score member, score = scheduledAt.Unix()
Enqueue(q, postID, scheduledAt) == ZAdd(q, postID, Unix(scheduledAt))

\* Queue.Update re-adds the member (plain ZADD, no XX flag)
QueueUpdate(q, postID, scheduledAt) == Enqueue(q, postID, scheduledAt)

Remove_OrFirst(q, postID) ==
  IF postID \in DOMAIN q \/ q = <<>> THEN ZRem(q, postID)
  ELSE ZRem(q, ZFirst(q, DOMAIN q))

\* Queue.Remove: ZREM key member
Remove(q, postID) == ZRem(q, postID)

\* ------------------------------------------------------------ retry policy
RECURSIVE Pow2(_)
Pow2(n) == IF n = 0 THEN 1 ELSE 2 * Pow2(n - 1)

\* math.Pow(2, retryCount) minutes
BackoffMinutes(retryCount) == Pow2(retryCount)

\* time.Now().Add(backoffMinutes * time.Minute)
NextRetryAt(t, retryCount) == t + BackoffMinutes(retryCount) * Minute

Range(s) == {s[i] : i \in DOMAIN s}

\* --------------------------------------------------------------- Notifier
UpdateTypes == {"create", "update", "delete", "publish"}

\* a channel that Subscribe has not made yet
NoChan == [state |-> "unmade", buf |-> <<>>, proc |-> 0, user |-> 0,
           reads |-> 0]

\* a Notify call that has not been made yet
NoNotify == [pc |-> "new", proc |-> 0, user |-> 0, type |-> "",
             subs |-> <<>>, sent |-> {}, skipped |-> {}]

\* a Notify call that is out of notifyLocal and about to publish
Publishing(rec) == [NoNotify EXCEPT !.pc = "publish", !.proc = rec.proc,
                                    !.user = rec.user, !.type = rec.type]

\* a Notify call that has returned
DoneNotify == [NoNotify EXCEPT !.pc = "done"]

\* listenRedis blocked on "range ch"
Listening == [NoNotify EXCEPT !.pc = "recv"]

NoLists == <<<<>>, <<>>>>

\* a StreamPosts request that has not been made yet: where it is, its two
\* hashes, the lists it fetched last and pushed last, what its last pass
\* did, its two tickers, whether the client has gone, and the passes it has
\* started since
NoStream == [pc |-> "new", user |-> 0, lastUpcomingHash |-> <<>>,
             lastHistoryHash |-> <<>>, seen |-> NoLists, sent |-> NoLists,
             did |-> "", tick |-> FALSE, keepalive |-> FALSE, gone |-> FALSE,
             after |-> <<>>]

\* NewNotifier in every process: no subscribers, listenRedis started; no
\* StreamPosts request yet
NewNotifier ==
  /\ subscribers = [p \in Procs |-> <<>>]
  /\ chans = [c \in Chans |-> NoChan]
  /\ inbox = [p \in Procs |-> <<>>]
  /\ ncall = [k \in NotifyIds |-> NoNotify]
  /\ relay = [p \in Procs |-> Listening]
  /\ panicked = FALSE
  /\ rlog = [p \in Procs |-> <<>>]
  /\ streams = [s \in Streams |-> NoStream]

\* a rate-limit key that is not in Redis
NoCounter == [count |-> 0, expires |-> NULL, started |-> 0, hits |-> 0]

\* no request has gone through RateLimiter
NoRateCall == [key |-> 0, at |-> 0, answer |-> 0, count |-> 0, err |-> FALSE]

\* no call has been made on the Queue by the single caller
NoQCall == [op |-> "none", id |-> 0, at |-> 0, limit |-> 0, ids |-> <<>>,
            err |-> <<>>, before |-> <<>>, time |-> 0, fault |-> {}]

\* ------------------------------------------------------------------- Init
NewCall == [op |-> "new", id |-> 0, at |-> 0]

DoneCall == [op |-> "done", id |-> 0, at |-> 0]

NoPost == [retry_count |-> 0]

\* NewRouter: no rate-limit key, no blacklisted token, no request yet
NewRouter ==
  /\ counters = [k \in RateKeys |-> NoCounter]
  /\ served = [k \in RateKeys |-> <<>>]
  /\ rlcall = NoRateCall
  /\ blacklist = {}
  /\ pairs = <<>>
  /\ acall = <<>>

\* NewWorker / Run with a live context; nothing done for any post yet
NewWorker ==
  /\ wpc = [w \in WorkerIds |-> "idle"]
  /\ wresults = [w \in WorkerIds |-> <<>>]
  /\ wbatch = [w \in WorkerIds |-> <<>>]
  /\ wpost = [w \in WorkerIds |-> NoPost]
  /\ wretry = [w \in WorkerIds |-> 0]
  /\ execLog = [p \in PostIds |-> <<>>]
  /\ delays = [p \in PostIds |-> <<>>]
  /\ effects = [p \in PostIds |-> <<>>]
  /\ cancelled = FALSE
  /\ wclaimed = [w \in WorkerIds |-> <<>>]
  /\ ticker = [w \in WorkerIds |-> TRUE]
  /\ wafter = [w \in WorkerIds |-> 0]

Init ==
  /\ now = 0
  /\ posts = [p \in PostIds |-> NoRow]
  /\ nextId = 0
  /\ queue = <<>>
  /\ enqueued = {}
  /\ greq = [r \in RequestIds |-> NewCall]
  /\ NewWorker
  /\ NewRouter
  /\ NewNotifier
  /\ qcall = NoQCall

\* the scheduled_at values a request may carry: not before now (the handlers
\* reject parsed.Before(time.Now())), at most MaxAhead ticks ahead
ScheduleChoices == {t \in Time : now <= t /\ t <= now + MaxAhead}

\* ------------------------------------------------------------------ clock
TickTo(limit) ==
  /\ now < limit
  /\ now' = now + 1
  /\ UNCHANGED <<posts, nextId, queue, enqueued, wvars, greq, execLog,
                 delays>>
  /\ UNCHANGED others

Tick == TickTo(MaxTime)

\* ------------------------------------------------------------ PostHandler
\* requests are made in the order of their numbers
IsNextRequest(r) ==
  /\ greq[r] = NewCall
  /\ \A o \in RequestIds : o < r => greq[o] # NewCall

\* Create: insert the row, then "go h.queue.Enqueue(post.ID, scheduledAt)"
Create(r, scheduledAt) ==
  /\ IsNextRequest(r)
  /\ nextId < NumPosts
  /\ nextId' = nextId + 1
  /\ posts' = CreatePost(posts, nextId + 1, scheduledAt)
  /\ greq' = [greq EXCEPT ![r] =
                [op |-> "enqueue", id |-> nextId + 1, at |-> scheduledAt]]
  /\ UNCHANGED <<now, queue, enqueued, wvars, execLog, delays>>
  /\ UNCHANGED others

\* Update: 400/404 unless the row is scheduled; UpdatePost; then, when the
\* request carried a scheduled_at, "go h.queue.Update(post.ID, *scheduledAt)"
Update(r, id, scheduledAt) ==
  /\ IsNextRequest(r)
  /\ posts[id].status = "scheduled"
  /\ posts' = UpdatePost(posts, id, scheduledAt)
  /\ greq' = [greq EXCEPT ![r] =
                IF scheduledAt = NULL THEN DoneCall
                ELSE [op |-> "update", id |-> id, at |-> scheduledAt[1]]]
  /\ UNCHANGED <<now, nextId, queue, enqueued, wvars, execLog, delays>>
  /\ UNCHANGED others

\* Delete: 400/404 unless the row is scheduled; DeletePost; then
\* "go h.queue.Remove(postID)"
Delete(r, id) ==
  /\ IsNextRequest(r)
  /\ posts[id].status = "scheduled"
  /\ posts' = DeletePost(posts, id)
  /\ greq' = [greq EXCEPT ![r] = [op |-> "remove", id |-> id, at |-> 0]]
  /\ UNCHANGED <<now, nextId, queue, enqueued, wvars, execLog, delays>>
  /\ UNCHANGED others

\* the goroutine started by Create
GoEnqueue(r) ==
  /\ greq[r].op = "enqueue"
  /\ queue' = Enqueue(queue, greq[r].id, greq[r].at)
  /\ enqueued' = enqueued \cup {greq[r].id}
  /\ greq' = [greq EXCEPT ![r] = DoneCall]
  /\ UNCHANGED <<now, posts, nextId, wvars, execLog, delays>>
  /\ UNCHANGED others

\* the goroutine started by Update
GoUpdate(r) ==
  /\ greq[r].op = "update"
  /\ queue' = QueueUpdate(queue, greq[r].id, greq[r].at)
  /\ enqueued' = enqueued \cup {greq[r].id}
  /\ greq' = [greq EXCEPT ![r] = DoneCall]
  /\ UNCHANGED <<now, posts, nextId, wvars, execLog, delays>>
  /\ UNCHANGED others

\* the goroutine started by Delete
GoRemove(r) ==
  /\ greq[r].op = "remove"
  /\ queue' = Remove(queue, greq[r].id)
  /\ greq' = [greq EXCEPT ![r] = DoneCall]
  /\ UNCHANGED <<now, posts, nextId, enqueued, wvars, execLog, delays>>
  /\ UNCHANGED others

\* ----------------------------------------------------------------- Worker
\* Every database and Redis call of the Worker takes the context of Run; once
\* that context is cancelled the call returns ctx.Err() and does nothing.
\* GetDuePosts, first half: now := time.Now().Unix(); ZRANGEBYSCORE (an
\* error makes processDuePosts return)
processDuePosts(w) ==
  /\ wpc[w] = "idle"
  /\ LET results == IF cancelled THEN <<>>
                    ELSE ZRangeByScore(queue, Unix(now), BatchLimit) IN
       /\ wresults' = [wresults EXCEPT ![w] = results]
       /\ wpc' = [wpc EXCEPT ![w] = IF results = <<>> THEN "idle" ELSE "zrem"]
  /\ UNCHANGED <<now, posts, nextId, queue, enqueued, wbatch, wclaimed, wpost,
                 wretry, greq, execLog, delays, effects, cancelled, nvars,
                 qcall>>

\* a pass of processDuePosts whenever the Worker is between two passes
GetDuePostsRange(w) == processDuePosts(w) /\ UNCHANGED hvars

\* GetDuePosts, one turn of the loop: ZREM the member and keep it only when
\* this call removed it (err != nil || removed == 0 skips it); after the last
\* turn processDuePosts starts on the claimed ids (or returns when there are
\* none)
Claimed_Unchecked(q, member, batch) == Append(batch, member)

Claimed(q, member, batch) ==
  IF member \in DOMAIN q THEN Append(batch, member) ELSE batch

GetDuePostsZRem(w) ==
  /\ wpc[w] = "zrem"
  /\ LET member == Head(wresults[w])
         batch == IF cancelled THEN wbatch[w]
                  ELSE Claimed(queue, member, wbatch[w])
         rest == Tail(wresults[w]) IN
       /\ queue' = IF cancelled THEN queue ELSE ZRem(queue, member)
       /\ wbatch' = [wbatch EXCEPT ![w] = batch]
       /\ wclaimed' = [wclaimed EXCEPT ![w] =
                         IF rest # <<>> THEN <<>> ELSE batch]
       /\ wresults' = [wresults EXCEPT ![w] = rest]
       /\ wpc' = [wpc EXCEPT ![w] =
                    IF rest # <<>> THEN "zrem"
                    ELSE IF batch = <<>> THEN "idle" ELSE "load"]
  /\ UNCHANGED <<now, hvars, posts, nextId, enqueued, wpost, wretry, greq,
                 execLog, delays, effects, cancelled, nvars, qcall>>

\* publishPost returned for the current id: on to the next claimed id; after
\* the last one processDuePosts returns
NextPost(w) ==
  /\ wbatch' = [wbatch EXCEPT ![w] = Tail(@)]
  /\ wclaimed' = [wclaimed EXCEPT ![w] =
                    IF Tail(wbatch[w]) = <<>> THEN <<>> ELSE @]
  /\ wpc' = [wpc EXCEPT ![w] = IF Tail(wbatch[w]) = <<>> THEN "idle" ELSE "load"]
  /\ wpost' = [wpost EXCEPT ![w] = NoPost]
  /\ wretry' = [wretry EXCEPT ![w] = 0]

Skips_NilOnly(post) == post.status = "none"

\* post == nil || post.Status != "scheduled" (a missing row reads as NoRow)
Skips(post) == post.status # "scheduled"

\* publishPost: GetPostForRetry; an error, a missing row or a row that is not
\* scheduled ends publishPost for this id
LoadPost(w) ==
  /\ wpc[w] = "load"
  /\ LET post == GetPostForRetry(posts, Head(wbatch[w])) IN
       IF cancelled \/ Skips(post)
       THEN NextPost(w)
       ELSE /\ wpost' = [wpost EXCEPT ![w] = [retry_count |-> post.retry_count]]
            /\ wpc' = [wpc EXCEPT ![w] = "publish"]
            /\ UNCHANGED <<wbatch, wclaimed, wretry>>
  /\ UNCHANGED <<now, hvars, posts, nextId, queue, enqueued, wresults, greq,
                 execLog, delays, effects, cancelled, nvars, qcall>>

\* publishPost: publishErr := w.mockPublish(post)
mockPublish(w, ok) ==
  /\ wpc[w] = "publish"
  /\ execLog' = [execLog EXCEPT ![Head(wbatch[w])] =
                   Append(@, IF ok THEN "ok" ELSE "fail")]
  /\ wpc' = [wpc EXCEPT ![w] = IF ok THEN "mark" ELSE "error"]
  /\ UNCHANGED <<now, hvars, posts, nextId, queue, enqueued, wresults, wbatch,
                 wclaimed, wpost, wretry, greq, delays, effects, cancelled,
                 nvars, qcall>>

\* what the Workers have done for a post is logged in effects: the row
\* changes to published and to failed, the invalidations, the notifications
Did(id, what) == effects' = [effects EXCEPT ![id] = Append(@, what)]

IsNil_Never(publishedPost) == FALSE

\* publishedPost == nil
IsNil(publishedPost) == publishedPost = NULL

\* publishPost, success: PublishPost; an error or no row returned ends
\* publishPost for this id
MarkPublished(w) ==
  /\ wpc[w] = "mark"
  /\ LET id == Head(wbatch[w])
         publishedPost == PublishPostReturning(posts, id) IN
       IF cancelled
       THEN NextPost(w) /\ UNCHANGED <<posts, effects>>
       ELSE /\ posts' = PublishPost(posts, id)
            /\ IF posts' # posts THEN Did(id, "published")
               ELSE UNCHANGED effects
            /\ IF IsNil(publishedPost)
               THEN NextPost(w)
               ELSE /\ wpc' = [wpc EXCEPT ![w] = "invalidate"]
                    /\ UNCHANGED <<wbatch, wclaimed, wpost, wretry>>
  /\ UNCHANGED <<now, hvars, nextId, queue, enqueued, wresults, greq, execLog,
                 delays, cancelled, nvars, qcall>>

\* publishPost, success: _ = w.cache.InvalidateUserPosts(ctx, post.UserID);
\* the error of a cancelled context is dropped and nothing is invalidated
InvalidateUserPosts(w) ==
  /\ wpc[w] = "invalidate"
  /\ IF cancelled THEN UNCHANGED effects
     ELSE Did(Head(wbatch[w]), "invalidate")
  /\ wpc' = [wpc EXCEPT ![w] = "notify"]
  /\ UNCHANGED <<now, hvars, posts, nextId, queue, enqueued, wresults, wbatch,
                 wclaimed, wpost, wretry, greq, execLog, delays, cancelled,
                 nvars, qcall>>

\* publishPost, success: w.notifier.Notify(post.UserID, UpdateTypePublish)
\* (Notify takes no context; what Notify does is the Notifier part below)
WorkerNotify(w) ==
  /\ wpc[w] = "notify"
  /\ Did(Head(wbatch[w]), "notify")
  /\ NextPost(w)
  /\ UNCHANGED <<now, hvars, posts, nextId, queue, enqueued, wresults, greq,
                 execLog, delays, cancelled, nvars, qcall>>

\* handlePublishError: retryCount := post.RetryCount + 1; MarkPostFailed when
\* retryCount >= MaxRetries, else ScheduleRetry at now + 2^retryCount minutes;
\* an error of ScheduleRetry returns before the Enqueue
GiveUp_Strict(retryCount) == retryCount > MaxRetries

GiveUp(retryCount) == retryCount >= MaxRetries

handlePublishError(w) ==
  /\ wpc[w] = "error"
  /\ LET id == Head(wbatch[w])
         retryCount == wpost[w].retry_count + 1
         nextRetryAt == NextRetryAt(now, retryCount) IN
       IF cancelled
       THEN NextPost(w) /\ UNCHANGED <<posts, delays, effects>>
       ELSE IF GiveUp(retryCount)
       THEN /\ posts' = MarkPostFailed(posts, id)
            /\ Did(id, "failed")
            /\ NextPost(w)
            /\ UNCHANGED delays
       ELSE /\ posts' = ScheduleRetry(posts, id, nextRetryAt)
            /\ delays' = IF posts' = posts THEN delays
                          ELSE [delays EXCEPT ![id] =
                                  Append(@, BackoffMinutes(retryCount))]
            /\ wretry' = [wretry EXCEPT ![w] = nextRetryAt]
            /\ wpc' = [wpc EXCEPT ![w] = "enqueue"]
            /\ UNCHANGED <<wbatch, wclaimed, wpost, effects>>
  /\ UNCHANGED <<now, hvars, nextId, queue, enqueued, wresults, greq, execLog,
                 cancelled, nvars, qcall>>

\* handlePublishError: w.queue.Enqueue(post.ID, nextRetryAt)
Reenqueue(w) ==
  /\ wpc[w] = "enqueue"
  /\ queue' = IF cancelled THEN queue
              ELSE Enqueue(queue, Head(wbatch[w]), wretry[w])
  /\ enqueued' = IF cancelled THEN enqueued
                 ELSE enqueued \cup {Head(wbatch[w])}
  /\ NextPost(w)
  /\ UNCHANGED <<now, hvars, posts, nextId, wresults, greq, execLog, delays,
                 effects, cancelled, nvars, qcall>>

\* main: a shutdown signal cancels the context of Run
Cancel ==
  /\ ~cancelled
  /\ cancelled' = TRUE
  /\ UNCHANGED <<now, hvars, posts, nextId, queue, enqueued, wvars, greq,
                 execLog, delays, effects, nvars, qcall>>

\* Run: between two calls of processDuePosts, <-ctx.Done() returns
Stop(w) ==
  /\ wpc[w] = "idle"
  /\ cancelled
  /\ wpc' = [wpc EXCEPT ![w] = "stopped"]
  /\ UNCHANGED <<now, hvars, posts, nextId, queue, enqueued, wresults, wbatch,
                 wclaimed, wpost, wretry, greq, execLog, delays, effects,
                 cancelled, nvars, qcall>>

\* ------------------------------------------------- the Queue, one caller
\* GetDuePosts as one call with nothing in between: the range read up to
\* now, then for each member ZREM and keep the member when it was removed
RECURSIVE PopEach(_, _, _)
PopEach(q, results, postIDs) ==
  IF results = <<>> THEN [ids |-> postIDs, queue |-> q]
  ELSE PopEach(ZRem(q, Head(results)), Tail(results),
               Claimed(q, Head(results), postIDs))

GetDuePosts(q, t, maxCount) ==
  PopEach(q, ZRangeByScore(q, Unix(t), maxCount), <<>>)

\* the calls of one caller, each recorded in qcall with the queue it found
QEnqueue(id, t) ==
  /\ queue' = Enqueue(queue, id, t)
  /\ enqueued' = enqueued \cup {id}
  /\ qcall' = [NoQCall EXCEPT !.op = "Enqueue", !.id = id, !.at = t,
                              !.before = queue, !.time = now]
  /\ UNCHANGED <<now, hvars, posts, nextId, wvars, greq, execLog, delays,
                 effects, cancelled, nvars>>

QUpdate(id, t) ==
  /\ queue' = QueueUpdate(queue, id, t)
  /\ enqueued' = enqueued \cup {id}
  /\ qcall' = [NoQCall EXCEPT !.op = "Update", !.id = id, !.at = t,
                              !.before = queue, !.time = now]
  /\ UNCHANGED <<now, hvars, posts, nextId, wvars, greq, execLog, delays,
                 effects, cancelled, nvars>>

QRemove(id) ==
  /\ queue' = Remove(queue, id)
  /\ qcall' = [NoQCall EXCEPT !.op = "Remove", !.id = id,
                              !.before = queue, !.time = now]
  /\ UNCHANGED <<now, hvars, posts, nextId, enqueued, wvars, greq, execLog,
                 delays, effects, cancelled, nvars>>

QGetDuePosts(maxCount) ==
  /\ LET got == GetDuePosts(queue, now, maxCount) IN
       /\ queue' = got.queue
       /\ qcall' = [NoQCall EXCEPT !.op = "GetDuePosts", !.limit = maxCount,
                                   !.ids = got.ids, !.before = queue,
                                   !.time = now]
  /\ UNCHANGED <<now, hvars, posts, nextId, enqueued, wvars, greq, execLog,
                 delays, effects, cancelled, nvars>>

\* maxCount is positive (the Worker passes 100)
NextQueue ==
  \/ Tick
  \/ \E id \in PostIds, t \in Time : QEnqueue(id, t)
  \/ \E id \in PostIds, t \in Time : QUpdate(id, t)
  \/ \E id \in PostIds : QRemove(id)
  \/ \E maxCount \in 1..MaxLimit : QGetDuePosts(maxCount)

SpecQueue == Init /\ [][NextQueue]_vars

\* the ids of a queue whose score is at most that of time t
Due(q, t) == {m \in DOMAIN q : q[m] <= Unix(t)}

Min(a, b) == IF a <= b THEN a ELSE b

\* C15: a GetDuePosts call returns at most maxCount ids, as many as are due
\* up to that count, each of them due, in ascending order of score, and none
\* of them is in the queue afterwards; a call that directly follows a call
\* that returned fewer than its maxCount, at the same time, returns nothing.
C15_GetDuePosts ==
  /\ [](qcall.op = "GetDuePosts"
          => LET ids == qcall.ids
                 q == qcall.before IN
               /\ Len(ids) = Min(qcall.limit, Cardinality(Due(q, qcall.time)))
               /\ Range(ids) \subseteq Due(q, qcall.time)
               /\ \A i, j \in DOMAIN ids : i < j => q[ids[i]] <= q[ids[j]]
               /\ \A i, j \in DOMAIN ids : i # j => ids[i] # ids[j]
               /\ qcall.err = NULL
               /\ Range(ids) \cap DOMAIN queue = {}
               /\ DOMAIN queue = DOMAIN q \ Range(ids)
               /\ \A m \in DOMAIN queue : queue[m] = q[m])
  /\ [][(/\ qcall.op = "GetDuePosts" /\ qcall'.op = "GetDuePosts"
         /\ qcall' # qcall
         /\ qcall'.time = qcall.time
         /\ Len(qcall.ids) < qcall.limit)
          => qcall'.ids = <<>>]_vars

\* a call with maxCount 1 found two ids due, with different scores, and
\* returned the earlier one
C15_Witness ==
  /\ qcall.op = "GetDuePosts"
  /\ qcall.limit = 1
  /\ Len(qcall.ids) = 1
  /\ \E m \in Due(qcall.before, qcall.time) :
       qcall.before[m] > qcall.before[qcall.ids[1]]

\* C16: a Remove call returns no error and takes the id, and nothing else,
\* out of the queue; on an id that is not in the queue (removed before, or
\* never enqueued) it leaves the queue as it is.
C16_RemoveIdempotent ==
  [](qcall.op = "Remove"
       => /\ qcall.err = NULL
          /\ DOMAIN queue = DOMAIN qcall.before \ {qcall.id}
          /\ \A m \in DOMAIN queue : queue[m] = qcall.before[m]
          /\ qcall.id \notin DOMAIN qcall.before => queue = qcall.before
          /\ Remove(queue, qcall.id) = queue)

\* Remove was called on an id that was enqueued once and is no longer in the
\* queue, while another id is
C16_Witness ==
  /\ qcall.op = "Remove"
  /\ qcall.id \in enqueued
  /\ qcall.id \notin DOMAIN qcall.before
  /\ qcall.before # <<>>

\* C17: an Enqueue (or Update) call returns no error; afterwards the id is
\* in the queue with the score of the new time, whatever its score was, and
\* every other id is there as before.
C17_EnqueueUpsert ==
  [](qcall.op \in {"Enqueue", "Update"}
       => /\ qcall.err = NULL
          /\ DOMAIN queue = DOMAIN qcall.before \cup {qcall.id}
          /\ queue[qcall.id] = Unix(qcall.at)
          /\ \A m \in DOMAIN queue \ {qcall.id} : queue[m] = qcall.before[m])

\* Enqueue was called on an id that was in the queue with another score,
\* next to another id
C17_Witness ==
  /\ qcall.op = "Enqueue"
  /\ qcall.id \in DOMAIN qcall.before
  /\ qcall.before[qcall.id] # Unix(qcall.at)
  /\ DOMAIN qcall.before # {qcall.id}

\* --------------------------------------------------------------- Notifier
\* One Notifier per process, all on the same Redis channel post_updates.
\* n.mu orders Subscribe and Unsubscribe (Lock) against notifyLocal (RLock):
\* a process's readers are the Notify calls and the relay that are inside the
\* loop of notifyLocal; Subscribe and Unsubscribe run from Lock to Unlock in
\* one step and wait while there is a reader.
\* n.subscribers[userID]: a missing key reads as the empty list
Lookup(m, u) == IF u \in DOMAIN m THEN m[u] ELSE <<>>

Put(m, u, v) == [k \in DOMAIN m \cup {u} |-> IF k = u THEN v ELSE m[k]]

Delete_key(m, u) == [k \in DOMAIN m \ {u} |-> m[k]]

Readers(p) ==
  {k \in NotifyIds : ncall[k].pc = "send" /\ ncall[k].proc = p}
    \cup {q \in {0} : relay[p].pc = "send"}

RLocked_Ignored(p) == FALSE

\* n.mu.Lock() has to wait
RLocked(p) == Readers(p) # {}

\* Subscribe: ch := make(chan PostUpdate, 10); append it to the user's list
AddSubscriber_Replace(list, c) == <<c>>

AddSubscriber(list, c) == Append(list, c)

Subscribe(p, u, c) ==
  /\ ~RLocked(p)
  /\ chans[c].state = "unmade"
  /\ \A o \in Chans : o < c => chans[o].state # "unmade"
  /\ chans' = [chans EXCEPT ![c] =
                 [state |-> "open", buf |-> <<>>, proc |-> p, user |-> u,
                  reads |-> 0]]
  /\ subscribers' = [subscribers EXCEPT ![p] =
                       Put(@, u, AddSubscriber(Lookup(@, u), c))]
  /\ UNCHANGED <<now, hvars, posts, nextId, queue, enqueued, wvars, greq,
                 execLog, delays, effects, cancelled, inbox, ncall, relay,
                 panicked, qcall>>

\* append(subscribers[:i], subscribers[i+1:]...) for the first i with
\* subscribers[i] == ch
RECURSIVE RemoveFirst(_, _)
RemoveFirst(list, c) ==
  IF list = <<>> THEN <<>>
  ELSE IF Head(list) = c THEN Tail(list)
  ELSE <<Head(list)>> \o RemoveFirst(Tail(list), c)

\* Unsubscribe: remove the channel from the user's list and close it; drop
\* the user's key when the list is empty.  ch is any channel that a caller
\* in this process can hold, userID any user.
Unsubscribe(p, u, c) ==
  /\ ~RLocked(p)
  /\ chans[c].state # "unmade"
  /\ chans[c].proc = p
  /\ LET list == Lookup(subscribers[p], u)
         found == c \in Range(list)
         rest == IF found THEN RemoveFirst(list, c) ELSE list IN
       /\ subscribers' = [subscribers EXCEPT ![p] =
                            IF rest = <<>> THEN Delete_key(@, u)
                            ELSE Put(@, u, rest)]
       /\ chans' = IF found THEN [chans EXCEPT ![c].state = "closed"] ELSE chans
       /\ panicked' = (panicked \/ (found /\ chans[c].state = "closed"))
  /\ UNCHANGED <<now, hvars, posts, nextId, queue, enqueued, wvars, greq,
                 execLog, delays, effects, cancelled, inbox, ncall, relay,
                 qcall>>

RECURSIVE Sum(_, _)
Sum(f, S) ==
  IF S = {} THEN 0
  ELSE LET x == CHOOSE y \in S : TRUE IN f[x] + Sum(f, S \ {x})

\* the subscriber reads one event from its channel (MaxReceive reads in all)
Receive(c) ==
  /\ chans[c].buf # <<>>
  /\ Sum([o \in Chans |-> chans[o].reads], Chans) < MaxReceive
  /\ chans' = [chans EXCEPT ![c].buf = Tail(@), ![c].reads = @ + 1]
  /\ UNCHANGED <<now, hvars, posts, nextId, queue, enqueued, wvars, greq,
                 execLog, delays, effects, cancelled, subscribers, inbox,
                 ncall, relay, panicked, qcall>>

\* json.Marshal(update) and json.Unmarshal(payload, &update): the payload
\* carries the values of the two fields
Marshal(update) == <<update.user_id, update.type>>

WellFormed(data) == Len(data) = 2 /\ data[1] \in Users

Unmarshal(data) == [user_id |-> data[1], type |-> data[2]]

\* notifyLocal, one turn of the loop: select { case ch <- update: sent++
\* default: skip }.  A send on a closed channel panics.
HasRoom_Always(ch) == TRUE

HasRoom(ch) == Len(ch.buf) < ChanCap

TrySend(chs, c, update) ==
  IF chs[c].state = "open" /\ HasRoom(chs[c])
  THEN [chs EXCEPT ![c].buf = Append(@, update)]
  ELSE chs

\* the caller of notifyLocal after that turn; back is where it goes when the
\* loop is over (RUnlock)
AfterSend(rec, chs, back) ==
  LET c == Head(rec.subs) IN
    IF chs[c].state = "closed" THEN [rec EXCEPT !.pc = "panic"]
    ELSE IF Tail(rec.subs) = <<>> THEN back
    ELSE [rec EXCEPT
            !.subs = Tail(@),
            !.sent = IF HasRoom(chs[c]) THEN @ \cup {c} ELSE @,
            !.skipped = IF HasRoom(chs[c]) THEN @ ELSE @ \cup {c}]

\* Notify, first half: notifyLocal takes the read lock and reads the user's
\* list; with no subscriber it returns at once
NotifyBegin(k, p, u, t) ==
  /\ ncall[k].pc = "new"
  /\ \A o \in NotifyIds : o < k => ncall[o].pc # "new"
  /\ LET list == Lookup(subscribers[p], u) IN
       ncall' = [ncall EXCEPT ![k] =
                   LET rec == [pc |-> "send", proc |-> p, user |-> u,
                               type |-> t, subs |-> list, sent |-> {},
                               skipped |-> {}]
                   IN IF list = <<>> THEN Publishing(rec) ELSE rec]
  /\ UNCHANGED <<now, hvars, posts, nextId, queue, enqueued, wvars, greq,
                 execLog, delays, effects, cancelled, subscribers, chans,
                 inbox, relay, panicked, qcall>>

NotifySend(k) ==
  /\ ncall[k].pc = "send"
  /\ LET c == Head(ncall[k].subs)
         update == [user_id |-> ncall[k].user, type |-> ncall[k].type] IN
       /\ chans' = TrySend(chans, c, update)
       /\ ncall' = [ncall EXCEPT ![k] = AfterSend(@, chans, Publishing(@))]
       /\ panicked' = (panicked \/ chans[c].state = "closed")
  /\ UNCHANGED <<now, hvars, posts, nextId, queue, enqueued, wvars, greq,
                 execLog, delays, effects, cancelled, subscribers, inbox,
                 relay, qcall>>

Receivers_Local(p) == {p}

\* the processes whose pubsub is subscribed to post_updates (NewNotifier
\* subscribes in every process, so the publisher is among them)
Receivers(p) == Procs

\* Notify, second half: n.redis.Publish(ctx, postUpdateChannel, data)
Publish(k) ==
  /\ ncall[k].pc = "publish"
  /\ LET update == [user_id |-> ncall[k].user, type |-> ncall[k].type] IN
       inbox' = [q \in Procs |->
                   IF q \in Receivers(ncall[k].proc)
                   THEN Append(inbox[q], Marshal(update)) ELSE inbox[q]]
  /\ ncall' = [ncall EXCEPT ![k] = DoneNotify]
  /\ UNCHANGED <<now, hvars, posts, nextId, queue, enqueued, wvars, greq,
                 execLog, delays, effects, cancelled, subscribers, chans,
                 relay, panicked, qcall>>

LogAndSkip_Return == [Listening EXCEPT !.pc = "returned"]

\* listenRedis, json.Unmarshal failed: log the error and "continue", back to
\* "range ch"
LogAndSkip == Listening

Relayed_Republish(boxes, p) ==
  [q \in Procs |->
     IF q = p THEN Append(Tail(boxes[q]), Head(boxes[p]))
     ELSE Append(boxes[q], Head(boxes[p]))]

\* what listenRedis does to the bus: it takes the message it was sent and
\* publishes nothing (it calls notifyLocal, not Notify)
Relayed(boxes, p) == [boxes EXCEPT ![p] = Tail(@)]

\* listenRedis: the next message of "range ch"; a payload that does not
\* unmarshal is logged and skipped, else notifyLocal starts
RelayReceive(p) ==
  /\ relay[p].pc = "recv"
  /\ inbox[p] # <<>>
  /\ inbox' = Relayed(inbox, p)
  /\ LET data == Head(inbox[p])
         update == Unmarshal(data)
         list == Lookup(subscribers[p], update.user_id) IN
       /\ relay' = [relay EXCEPT ![p] =
                      IF ~WellFormed(data) THEN LogAndSkip
                      ELSE IF list = <<>> THEN Listening
                      ELSE [pc |-> "send", proc |-> p,
                            user |-> update.user_id, type |-> update.type,
                            subs |-> list, sent |-> {}, skipped |-> {}]]
       /\ rlog' = [rlog EXCEPT ![p] =
                     Append(@, IF WellFormed(data) THEN "relay" ELSE "skip")]
  /\ UNCHANGED <<now, ticker, wafter, streams, mvars, posts, nextId, queue,
                 enqueued, wvars, greq, execLog, delays, effects, cancelled,
                 subscribers, chans, ncall, panicked, qcall>>

RelaySend(p) ==
  /\ relay[p].pc = "send"
  /\ LET c == Head(relay[p].subs)
         update == [user_id |-> relay[p].user, type |-> relay[p].type] IN
       /\ chans' = TrySend(chans, c, update)
       /\ relay' = [relay EXCEPT ![p] = AfterSend(@, chans, Listening)]
       /\ panicked' = (panicked \/ chans[c].state = "closed")
  /\ UNCHANGED <<now, hvars, posts, nextId, queue, enqueued, wvars, greq,
                 execLog, delays, effects, cancelled, subscribers, inbox,
                 ncall, qcall>>

\* the Notifiers on their own: processes subscribe, unsubscribe and read
\* their channels, Notify is called MaxNotify times by any process for any
\* user, and the relays run.  At the start some subscribers are there
\* already, with what earlier notifications left unread in their buffers.
RECURSIVE Ascending(_)
Ascending(S) ==
  IF S = {} THEN <<>>
  ELSE LET m == CHOOSE x \in S : \A y \in S : x <= y
       IN <<m>> \o Ascending(S \ {m})

\* the type that the k-th Notify call of this part carries: the calls
\* alternate between a handler's update and a Worker's publish
NotifyType(k) == IF k % 2 = 1 THEN "update" ELSE "publish"

EarlierEvent(u) == [user_id |-> u, type |-> "create"]

PrefillChoices == {0, ChanCap - 1}

InitNotify ==
  /\ now = 0
  /\ posts = [p \in PostIds |-> NoRow]
  /\ nextId = 0
  /\ queue = <<>>
  /\ enqueued = {}
  /\ greq = [r \in RequestIds |-> NewCall]
  /\ NewWorker
  /\ NewRouter
  /\ qcall = NoQCall
  /\ inbox = [p \in Procs |-> <<>>]
  /\ ncall = [k \in NotifyIds |-> NoNotify]
  /\ relay = [p \in Procs |-> Listening]
  /\ panicked = FALSE
  /\ rlog = [p \in Procs |-> <<>>]
  /\ streams = [s \in Streams |-> NoStream]
  /\ \E m \in 0..NumChans :
       \E owner \in [1..m -> Procs \X Users], fill \in [1..m -> PrefillChoices] :
         /\ chans = [c \in Chans |->
                       IF c <= m
                       THEN [state |-> "open",
                             buf |-> [i \in 1..fill[c] |->
                                        EarlierEvent(owner[c][2])],
                             proc |-> owner[c][1], user |-> owner[c][2],
                             reads |-> 0]
                       ELSE NoChan]
         /\ subscribers =
              [p \in Procs |->
                 [u \in {v \in Users : \E c \in 1..m : owner[c] = <<p, v>>} |->
                    Ascending({c \in 1..m : owner[c] = <<p, u>>})]]

NextNotify ==
  \/ \E p \in Procs, u \in Users, c \in Chans : Subscribe(p, u, c)
  \/ \E p \in Procs, u \in Users, c \in Chans : Unsubscribe(p, u, c)
  \/ \E c \in Chans : Receive(c)
  \/ \E k \in NotifyIds, p \in Procs, u \in Users :
       NotifyBegin(k, p, u, NotifyType(k))
  \/ \E k \in NotifyIds : NotifySend(k)
  \/ \E k \in NotifyIds : Publish(k)
  \/ \E p \in Procs : RelayReceive(p)
  \/ \E p \in Procs : RelaySend(p)

SpecNotify == InitNotify /\ [][NextNotify]_vars

\* the channels that Subscribe has handed out in process p for user u and
\* that have not been closed
Subscribed(p, u) ==
  {c \in Chans : chans[c].state = "open" /\ chans[c].proc = p
                                         /\ chans[c].user = u}

UpdateOf(rec) == [user_id |-> rec.user, type |-> rec.type]

Last(s) == s[Len(s)]

\* C11: a Notify call puts its event at the end of the buffer of every
\* channel subscribed for the user in the calling process that has room when
\* its turn comes; when the call leaves notifyLocal it has tried every such
\* channel (two of them when two are subscribed).
C11_DeliveredToAll ==
  [][\A k \in NotifyIds :
       ncall[k].pc = "send" /\ ncall'[k] # ncall[k]
         => LET rec == ncall[k]
                c == Head(rec.subs) IN
              /\ HasRoom(chans[c])
                   => chans'[c].buf = Append(chans[c].buf, UpdateOf(rec))
              /\ ncall'[k].pc = "publish"
                   => Subscribed(rec.proc, rec.user)
                        \subseteq rec.sent \cup rec.skipped \cup {c}]_vars

\* one call has just delivered its event to the two channels of its user
C11_Witness ==
  \E k \in NotifyIds :
    /\ ncall[k].pc = "publish"
    /\ Cardinality(Subscribed(ncall[k].proc, ncall[k].user)) = 2
    /\ \A c \in Subscribed(ncall[k].proc, ncall[k].user) :
         chans[c].buf # <<>> /\ Last(chans[c].buf) = UpdateOf(ncall[k])

\* C12: no buffer ever holds more than ChanCap events; a caller of
\* notifyLocal whose next channel is full is never blocked: its turn leaves
\* every buffer as it was and takes it to its next channel, or out of
\* notifyLocal when that was the last one.
C12_NonBlockingDelivery ==
  /\ [](\A c \in Chans : Len(chans[c].buf) <= ChanCap)
  /\ [](/\ \A k \in NotifyIds : ncall[k].pc = "send" => ENABLED NotifySend(k)
        /\ \A p \in Procs : relay[p].pc = "send" => ENABLED RelaySend(p))
  /\ [][/\ \A k \in NotifyIds :
             /\ ncall[k].pc = "send" /\ ncall'[k] # ncall[k]
             /\ ~HasRoom(chans[Head(ncall[k].subs)])
             => /\ chans' = chans
                /\ IF Tail(ncall[k].subs) = <<>>
                   THEN ncall'[k].pc = "publish"
                   ELSE /\ ncall'[k].subs = Tail(ncall[k].subs)
                        /\ ncall'[k].skipped =
                             ncall[k].skipped \cup {Head(ncall[k].subs)}
        /\ \A p \in Procs :
             /\ relay[p].pc = "send" /\ relay'[p] # relay[p]
             /\ ~HasRoom(chans[Head(relay[p].subs)])
             => /\ chans' = chans
                /\ IF Tail(relay[p].subs) = <<>>
                   THEN relay'[p].pc = "recv"
                   ELSE relay'[p].subs = Tail(relay[p].subs)]_vars

\* a call has found the first channel of its user full and dropped its event
\* there, and has delivered it to the second channel
C12_Witness ==
  \E k \in NotifyIds, c1, c2 \in Chans :
    /\ ncall[k].pc = "publish"
    /\ c1 # c2
    /\ {c1, c2} \subseteq Subscribed(ncall[k].proc, ncall[k].user)
    /\ Len(chans[c1].buf) = ChanCap
    /\ UpdateOf(ncall[k]) \notin Range(chans[c1].buf)
    /\ chans[c2].buf # <<>>
    /\ Last(chans[c2].buf) = UpdateOf(ncall[k])

\* C14: no send is ever made on a closed channel; a channel that Unsubscribe
\* has taken out of the list of its user is closed when Unsubscribe returns;
\* a closed channel is in no list, is not ahead of any caller inside
\* notifyLocal, stays closed and gets no further event.
C14_UnsubscribeSafe ==
  /\ [](~panicked)
  /\ [](\A c \in Chans :
          chans[c].state = "closed"
            => /\ \A p \in Procs, u \in Users :
                    c \notin Range(Lookup(subscribers[p], u))
               /\ \A k \in NotifyIds :
                    ncall[k].pc = "send" => c \notin Range(ncall[k].subs)
               /\ \A p \in Procs :
                    relay[p].pc = "send" => c \notin Range(relay[p].subs))
  /\ [][/\ \A c \in Chans :
             chans[c].state = "closed"
               => /\ chans'[c].state = "closed"
                  /\ \/ chans'[c].buf = chans[c].buf
                     \/ /\ chans[c].buf # <<>>
                        /\ chans'[c].buf = Tail(chans[c].buf)
        /\ \A p \in Procs, u \in Users, c \in Chans :
             /\ c \in Range(Lookup(subscribers[p], u))
             /\ c \notin Range(Lookup(subscribers'[p], u))
             => chans'[c].state = "closed"]_vars

\* Unsubscribe has closed a channel between the two halves of a Notify call
\* that had just delivered its event to that channel
C14_Witness ==
  \E k \in NotifyIds, c \in Chans :
    /\ ncall[k].pc = "publish"
    /\ chans[c].state = "closed"
    /\ chans[c].proc = ncall[k].proc /\ chans[c].user = ncall[k].user
    /\ chans[c].buf # <<>>
    /\ Last(chans[c].buf) = UpdateOf(ncall[k])

\* C26: the bus gets a message only from the second half of a Notify call,
\* one message per call, which every process receives once; a step of a
\* relay takes the first message of its own inbox or sends on a channel,
\* and puts nothing on the bus; so no inbox ever holds more messages than
\* Notify calls have published.
C26_NoRebroadcast ==
  /\ [](\A p \in Procs :
          Len(inbox[p]) + Len(rlog[p])
            = Cardinality({k \in NotifyIds : ncall[k].pc = "done"}))
  /\ [][/\ inbox' # inbox
             => \/ \E k \in NotifyIds :
                     /\ ncall[k].pc = "publish" /\ ncall'[k].pc = "done"
                     /\ \A j \in NotifyIds \ {k} : ncall'[j] = ncall[j]
                     /\ \A p \in Procs :
                          inbox'[p] = Append(inbox[p], Marshal(UpdateOf(ncall[k])))
                \/ \E p \in Procs :
                     /\ inbox[p] # <<>> /\ inbox'[p] = Tail(inbox[p])
                     /\ \A q \in Procs \ {p} : inbox'[q] = inbox[q]
        /\ \A p \in Procs :
             relay'[p] # relay[p]
               => \A q \in Procs : Len(inbox'[q]) <= Len(inbox[q])]_vars

\* every Notify call has returned, every relay has taken every message and
\* is back at the bus, and a subscriber holds an event of one of the calls
C26_Witness ==
  /\ \A k \in NotifyIds : ncall[k].pc = "done"
  /\ \A p \in Procs : inbox[p] = <<>> /\ relay[p].pc = "recv"
                        /\ Len(rlog[p]) = MaxNotify
  /\ \E c \in Chans :
       /\ chans[c].state = "open"
       /\ \E i \in DOMAIN chans[c].buf :
            chans[c].buf[i] # EarlierEvent(chans[c].user)

\* ------------------------------------------------- the relay between processes
\* Only process P1 calls Notify; subscribers are in any process.  The Notify
\* calls and the relays keep running: a reader of n.mu waits only for a
\* writer, and Subscribe and Unsubscribe hold the lock for one step.
P1 == 1

NextRelay ==
  \/ \E p \in Procs, u \in Users, c \in Chans : Subscribe(p, u, c)
  \/ \E p \in Procs, u \in Users, c \in Chans : Unsubscribe(p, u, c)
  \/ \E c \in Chans : Receive(c)
  \/ \E k \in NotifyIds, u \in Users : NotifyBegin(k, P1, u, NotifyType(k))
  \/ \E k \in NotifyIds : NotifySend(k)
  \/ \E k \in NotifyIds : Publish(k)
  \/ \E p \in Procs : RelayReceive(p)
  \/ \E p \in Procs : RelaySend(p)

FairRelay ==
  /\ \A k \in NotifyIds : WF_vars(NotifySend(k)) /\ WF_vars(Publish(k))
  /\ \A p \in Procs : WF_vars(RelayReceive(p)) /\ WF_vars(RelaySend(p))

SpecRelay == InitNotify /\ [][NextRelay]_vars /\ FairRelay

\* a Notify call has not returned yet, or a message it published has not
\* been relayed to the end in some process
InFlight ==
  \/ \E k \in NotifyIds : ncall[k].pc \in {"send", "publish"}
  \/ \E p \in Procs : inbox[p] # <<>> \/ relay[p].pc = "send"

\* C13: a Notify call, with or without local subscribers, ends by putting
\* its message in the inbox of every process; whenever a call or a message
\* is in flight, eventually every call made has returned and every message
\* has been taken and relayed to the end by the relay of each process; the
\* relay takes the messages in order, decodes the user
\* and the type that were published, and puts the event in the buffer of
\* every channel subscribed for that user in its process that has room.
C13_CrossProcessDelivery ==
  /\ InFlight ~> ~InFlight
  /\ [][/\ \A k \in NotifyIds :
             ncall[k].pc = "new" /\ ncall'[k].pc # "new"
                /\ Lookup(subscribers[ncall'[k].proc], ncall'[k].user) = <<>>
               => ncall'[k].pc = "publish"
        /\ \A k \in NotifyIds :
             ncall[k].pc = "publish" /\ ncall'[k].pc = "done"
               => \A q \in Procs :
                    inbox'[q] = Append(inbox[q], <<ncall[k].user, ncall[k].type>>)
        /\ \A p \in Procs :
             inbox'[p] # inbox[p] /\ Len(inbox'[p]) <= Len(inbox[p])
               => /\ inbox'[p] = Tail(inbox[p])
                  /\ relay[p].pc = "recv"
                  /\ LET u == Head(inbox[p])[1]
                         t == Head(inbox[p])[2] IN
                       IF Subscribed(p, u) = {} THEN relay'[p].pc = "recv"
                       ELSE /\ relay'[p].pc = "send"
                            /\ relay'[p].user = u /\ relay'[p].type = t
                            /\ Range(relay'[p].subs) = Subscribed(p, u)
        /\ \A p \in Procs :
             relay[p].pc = "send" /\ relay'[p] # relay[p]
               => LET c == Head(relay[p].subs) IN
                    /\ HasRoom(chans[c])
                         => chans'[c].buf = Append(chans[c].buf, UpdateOf(relay[p]))
                    /\ relay'[p].pc = "recv"
                         => Subscribed(p, relay[p].user)
                              \subseteq relay[p].sent \cup relay[p].skipped \cup {c}
       ]_vars

\* a channel of a process other than P1 holds an event that is not one of
\* those it started with: it came through the relay
C13_Witness ==
  \E c \in Chans :
    /\ chans[c].state = "open"
    /\ chans[c].proc # P1
    /\ \E i \in DOMAIN chans[c].buf : chans[c].buf[i].type # EarlierEvent(chans[c].user).type

\* ---------------------------------------------------------- specification
Next ==
  \/ Tick
  \/ \E r \in RequestIds, t \in ScheduleChoices : Create(r, t)
  \/ \E r \in RequestIds, id \in PostIds,
        s \in {NULL} \cup {<<t>> : t \in ScheduleChoices} : Update(r, id, s)
  \/ \E r \in RequestIds, id \in PostIds : Delete(r, id)
  \/ \E r \in RequestIds : GoEnqueue(r)
  \/ \E r \in RequestIds : GoUpdate(r)
  \/ \E r \in RequestIds : GoRemove(r)
  \/ \E w \in WorkerIds : GetDuePostsRange(w)
  \/ \E w \in WorkerIds : GetDuePostsZRem(w)
  \/ \E w \in WorkerIds : LoadPost(w)
  \/ \E w \in WorkerIds, ok \in BOOLEAN : mockPublish(w, ok)
  \/ \E w \in WorkerIds : MarkPublished(w)
  \/ \E w \in WorkerIds : InvalidateUserPosts(w)
  \/ \E w \in WorkerIds : WorkerNotify(w)
  \/ \E w \in WorkerIds : handlePublishError(w)
  \/ \E w \in WorkerIds : Reenqueue(w)

Spec == Init /\ [][Next]_vars

\* ------------------------------------------- callers racing on GetDuePosts
\* a populated queue: the first k posts were created and enqueued, their
\* requests are done, no worker has started yet
InitPop ==
  /\ now \in Time
  /\ nextId \in 1..NumPosts
  /\ \E sched \in [1..nextId -> {t \in Time : t <= now + MaxAhead}] :
       /\ posts = [p \in PostIds |->
                     IF p <= nextId
                     THEN [status |-> "scheduled", scheduled_at |-> sched[p],
                           retry_count |-> 0, next_retry_at |-> NULL]
                     ELSE NoRow]
       /\ queue = [p \in 1..nextId |-> Unix(sched[p])]
  /\ enqueued = 1..nextId
  /\ greq = [r \in RequestIds |-> IF r <= nextId THEN DoneCall ELSE NewCall]
  /\ NewWorker
  /\ NewRouter
  /\ NewNotifier
  /\ qcall = NoQCall

\* only GetDuePosts runs; a caller whose call returned ids (wpc = "load")
\* holds them in wbatch
NextPop ==
  \/ Tick
  \/ \E w \in WorkerIds : GetDuePostsRange(w)
  \/ \E w \in WorkerIds : GetDuePostsZRem(w)

SpecPop == InitPop /\ [][NextPop]_vars

\* C1: callers of GetDuePosts racing on one populated queue get disjoint
\* results, and every id returned was in the queue.
C1_AtMostOneClaim ==
  /\ \A w1, w2 \in WorkerIds :
       w1 # w2 => Range(wbatch[w1]) \cap Range(wbatch[w2]) = {}
  /\ \A w \in WorkerIds : Range(wbatch[w]) \subseteq enqueued

\* one caller has claimed an id that another caller has read and is about to
\* ZREM
C1_Witness ==
  \E w1, w2 \in WorkerIds :
    /\ w1 # w2
    /\ wpc[w2] = "zrem"
    /\ Head(wresults[w2]) \in Range(wbatch[w1])

\* ------------------------------------------------- properties of the Worker
\* C2: the publish operation is never invoked again for a post once an
\* invocation for that post has reported success.
C2_NoDuplicateExecution ==
  \A p \in PostIds :
    \A i \in 1..Len(execLog[p]) : i < Len(execLog[p]) => execLog[p][i] = "fail"

\* C3: a row leaves status scheduled only for published or failed, and no
\* step changes the status of a published or failed row.
StatusStep(old, new) ==
  \/ new = old
  \/ old = "none" /\ new = "scheduled"
  \/ old = "scheduled" /\ new \in {"published", "failed", "none"}

C3_StatusMonotonic ==
  [][\A p \in PostIds : StatusStep(posts[p].status, posts'[p].status)]_vars

Fails(log) == Cardinality({i \in DOMAIN log : log[i] = "fail"})

Held(p) == \E w \in WorkerIds : p \in Range(wbatch[w])

EnqueuePending(p) ==
  \E r \in RequestIds : greq[r].op = "enqueue" /\ greq[r].id = p

C7_RetryAtIsScore ==
  \A p \in DOMAIN queue :
    posts[p].next_retry_at # NULL => queue[p] = Unix(posts[p].next_retry_at[1])

\* C9: no step lowers the retry_count of a row.
C9_RetryCountOnlyIncreases ==
  [][\A p \in PostIds :
       Exists(posts, p) /\ Exists(posts', p)
         => posts'[p].retry_count >= posts[p].retry_count]_vars

\* a row whose retry was scheduled at an earlier tick has then been edited by
\* Update (the edit carries a time the clock had not allowed at the retry)
C9_Witness ==
  \E p \in PostIds, r \in RequestIds :
    /\ posts[p].retry_count = 1
    /\ greq[r].op = "update" /\ greq[r].id = p
    /\ posts[p].scheduled_at = greq[r].at
    /\ greq[r].at > posts[p].next_retry_at[1] - delays[p][1] * Minute + MaxAhead

\* C10: when a row is failed, its retry_count is the number of failed
\* publish invocations.
C10_CountsEveryFailure ==
  \A p \in PostIds :
    posts[p].status = "failed" => posts[p].retry_count = Fails(execLog[p])

\* C6: a post is marked failed only after three retries, scheduled with
\* delays of 2, 4 and 8 minutes.
C6_ThreeRetries ==
  \A p \in PostIds : posts[p].status = "failed" => delays[p] = <<2, 4, 8>>

\* C18: once a Worker has marked a post failed and is done with it, a
\* notification for the post has been made after the failure.
C18_FailureNotified ==
  \A p \in PostIds :
    \A i \in DOMAIN effects[p] :
      effects[p][i] = "failed" /\ ~Held(p)
        => \E j \in DOMAIN effects[p] : j > i /\ effects[p][j] = "notify"

\* what the Workers have done for a post, the failures left out
Successes(log) == SelectSeq(log, LAMBDA e : e # "failed")

\* C19: what the Workers do for a post on the success path is, in this
\* order, the change of the row to published, the invalidation of the cache
\* and the notification, each at most once; a Worker is at the invalidation
\* or at the notification only for a post that its PublishPost has changed.
C19_PublishThenInvalidateThenNotify ==
  /\ \A p \in PostIds :
       /\ Len(Successes(effects[p])) <= 3
       /\ \A i \in DOMAIN Successes(effects[p]) :
            Successes(effects[p])[i] = <<"published", "invalidate", "notify">>[i]
       /\ posts[p].status = "scheduled" => Successes(effects[p]) = <<>>
  /\ \A w \in WorkerIds :
       wpc[w] \in {"invalidate", "notify"}
         => /\ effects[Head(wbatch[w])] # <<>>
            /\ effects[Head(wbatch[w])][1] = "published"
            /\ posts[Head(wbatch[w])].status # "scheduled"
            /\ \A o \in WorkerIds \ {w} :
                 wpc[o] \in {"invalidate", "notify"}
                   => Head(wbatch[o]) # Head(wbatch[w])

\* two Workers held the same post and the publish operation succeeded for
\* both; one PublishPost changed the row, the other returned nil, and the
\* cache was invalidated and the notification made once
C19_Witness ==
  \E p \in PostIds :
    /\ execLog[p] = <<"ok", "ok">>
    /\ effects[p] = <<"published", "invalidate", "notify">>
    /\ ~Held(p)

\* C22: an edit of scheduled_at and the update of the queue are one atomic
\* change: in no state that a Worker about to read the queue can see does the
\* row hold the new scheduled_at while the queue holds another score for the
\* id, and the queue.Update of an edit never scores a post that is not
\* scheduled.
C22_EditAtomicWithQueue ==
  /\ [](\A r \in RequestIds :
          greq[r].op = "update" /\ (\E w \in WorkerIds : wpc[w] = "idle")
            => LET id == greq[r].id IN
                 ~ /\ posts[id].status = "scheduled"
                   /\ posts[id].scheduled_at = greq[r].at
                   /\ id \in DOMAIN queue
                   /\ queue[id] # Unix(greq[r].at))
  /\ [][\A r \in RequestIds :
          greq[r].op = "update" /\ greq'[r] = DoneCall
            => posts[greq[r].id].status = "scheduled"]_vars

\* C24: when a Worker loads a claimed id whose row is absent or not
\* scheduled, that step does not go on to the publish operation; it takes the
\* Worker to its next claimed id (or ends the pass) and changes no row,
\* nothing in the queue, and nothing in what has been published, retried,
\* invalidated or notified.
C24_SkipNotScheduled ==
  [][\A w \in WorkerIds :
       /\ wpc[w] = "load"
       /\ wbatch'[w] # wbatch[w] \/ wpc'[w] # wpc[w]
       /\ posts[Head(wbatch[w])].status # "scheduled"
       => /\ wpc'[w] = IF Tail(wbatch[w]) = <<>> THEN "idle" ELSE "load"
          /\ wbatch'[w] = Tail(wbatch[w])
          /\ posts' = posts
          /\ queue' = queue /\ enqueued' = enqueued
          /\ execLog' = execLog /\ delays' = delays
          /\ effects' = effects]_vars

\* a post was deleted after a Worker had claimed its id (the Remove of the
\* Delete has not run yet and the id is out of the queue); the Worker has
\* loaded it and is done with it, and the publish operation was not invoked
C24_Witness ==
  \E p \in PostIds, r \in RequestIds :
    /\ p \in enqueued
    /\ posts[p].status = "none"
    /\ greq[r].op = "remove" /\ greq[r].id = p
    /\ p \notin DOMAIN queue
    /\ ~Held(p)
    /\ \A w \in WorkerIds : p \notin Range(wresults[w])
    /\ execLog[p] = <<>>

\* -------------------------------------------- the retry loop on its own
\* posts are created and enqueued and the Workers run; no Update, no Delete
\* the clock also moves a backoff minute at a time
TickMinute ==
  /\ now + Minute <= MaxRetryTime
  /\ now' = now + Minute
  /\ UNCHANGED <<posts, nextId, queue, enqueued, wvars, greq, execLog,
                 delays>>
  /\ UNCHANGED others

NextRetry ==
  \/ TickMinute
  \/ \E r \in RequestIds, t \in ScheduleChoices : Create(r, t)
  \/ \E r \in RequestIds : GoEnqueue(r)
  \/ \E w \in WorkerIds : GetDuePostsRange(w)
  \/ \E w \in WorkerIds : GetDuePostsZRem(w)
  \/ \E w \in WorkerIds : LoadPost(w)
  \/ \E w \in WorkerIds, ok \in BOOLEAN : mockPublish(w, ok)
  \/ \E w \in WorkerIds : MarkPublished(w)
  \/ \E w \in WorkerIds : InvalidateUserPosts(w)
  \/ \E w \in WorkerIds : WorkerNotify(w)
  \/ \E w \in WorkerIds : handlePublishError(w)
  \/ \E w \in WorkerIds : Reenqueue(w)

SpecRetry == Init /\ [][NextRetry]_vars

IsPrefix(s, t) == Len(s) <= Len(t) /\ \A i \in DOMAIN s : s[i] = t[i]

NextStop ==
  \/ Tick
  \/ Cancel
  \/ \E r \in RequestIds, t \in ScheduleChoices : Create(r, t)
  \/ \E r \in RequestIds : GoEnqueue(r)
  \/ \E w \in WorkerIds : GetDuePostsRange(w)
  \/ \E w \in WorkerIds : GetDuePostsZRem(w)
  \/ \E w \in WorkerIds : LoadPost(w)
  \/ \E w \in WorkerIds, ok \in BOOLEAN : mockPublish(w, ok)
  \/ \E w \in WorkerIds : MarkPublished(w)
  \/ \E w \in WorkerIds : InvalidateUserPosts(w)
  \/ \E w \in WorkerIds : WorkerNotify(w)
  \/ \E w \in WorkerIds : handlePublishError(w)
  \/ \E w \in WorkerIds : Reenqueue(w)
  \/ \E w \in WorkerIds : Stop(w)

SpecStop == Init /\ [][NextStop]_vars

\* C20: when every Worker has stopped, no post that was enqueued is left
\* with status scheduled and absent from the queue.
C20_NoClaimedAndLost ==
  (\A w \in WorkerIds : wpc[w] = "stopped")
    => \A p \in enqueued :
         posts[p].status = "scheduled" => p \in DOMAIN queue

\* ------------------------------------------- the Worker as it is shipped
\* mockPublish returns nil, so handlePublishError never runs.  The clock, the
\* goroutines started by the handlers and every Worker keep taking steps.
GetUpcomingPosts == {p \in PostIds : posts[p].status = "scheduled"}

GetPublishedPosts == {p \in PostIds : posts[p].status = "published"}

WorkerStep(w) ==
  \/ GetDuePostsRange(w)
  \/ GetDuePostsZRem(w)
  \/ LoadPost(w)
  \/ mockPublish(w, TRUE)
  \/ MarkPublished(w)
  \/ InvalidateUserPosts(w)
  \/ WorkerNotify(w)

NextLive ==
  \/ Tick
  \/ \E r \in RequestIds, t \in ScheduleChoices : Create(r, t)
  \/ \E r \in RequestIds, id \in PostIds,
        s \in {NULL} \cup {<<t>> : t \in ScheduleChoices} : Update(r, id, s)
  \/ \E r \in RequestIds, id \in PostIds : Delete(r, id)
  \/ \E r \in RequestIds : GoEnqueue(r)
  \/ \E r \in RequestIds : GoUpdate(r)
  \/ \E r \in RequestIds : GoRemove(r)
  \/ \E w \in WorkerIds : WorkerStep(w)

Fairness ==
  /\ WF_vars(Tick)
  /\ \A r \in RequestIds :
       WF_vars(GoEnqueue(r)) /\ WF_vars(GoUpdate(r)) /\ WF_vars(GoRemove(r))
  /\ \A w \in WorkerIds : WF_vars(WorkerStep(w))

LiveSpec == Init /\ [][NextLive]_vars /\ Fairness

\* C8: a post in the upcoming list is eventually in the history list and out
\* of the upcoming list, unless its owner deletes it.
C8_EventuallyPublished ==
  \A p \in PostIds :
    (p \in GetUpcomingPosts)
      ~> \/ p \in GetPublishedPosts /\ p \notin GetUpcomingPosts
         \/ ~Exists(posts, p)

\* a post whose score the clock had to reach has been published
C8_Witness ==
  \E p \in PostIds :
    /\ p \in GetPublishedPosts
    /\ Unix(posts[p].scheduled_at) >= 1
    /\ Unix(now) >= Unix(posts[p].scheduled_at)

\* ------------------------------------------- a queue entry that is lost
\* The goroutine started by Create when Enqueue returns an error (Redis is
\* not reachable): the error is logged, the row stays as inserted and
\* nothing is added to the sorted set.
GoEnqueueErr(r) ==
  /\ greq[r].op = "enqueue"
  /\ greq' = [greq EXCEPT ![r] = DoneCall]
  /\ UNCHANGED <<now, posts, nextId, queue, enqueued, wvars, execLog, delays>>
  /\ UNCHANGED others

\* posts are created, the Enqueue of Create succeeds or fails, and the
\* Workers run as shipped (processDuePosts reads the sorted set only); the
\* clock, the goroutines and the Workers keep taking steps
NextLost ==
  \/ Tick
  \/ \E r \in RequestIds, t \in ScheduleChoices : Create(r, t)
  \/ \E r \in RequestIds : GoEnqueue(r)
  \/ \E r \in RequestIds : GoEnqueueErr(r)
  \/ \E w \in WorkerIds : WorkerStep(w)

FairLost ==
  /\ WF_vars(Tick)
  /\ \A r \in RequestIds : WF_vars(GoEnqueue(r) \/ GoEnqueueErr(r))
  /\ \A w \in WorkerIds : WF_vars(WorkerStep(w))

SpecLost == Init /\ [][NextLost]_vars /\ FairLost

\* C21: a post that is scheduled is eventually published, also when the
\* Enqueue made at its creation failed.
C21_PublishedDespiteLostEntry ==
  \A p \in PostIds :
    posts[p].status = "scheduled" ~> posts[p].status = "published"

\* ------------------------------------------- calls that return an error
\* processDuePosts, "if err := w.publishPost(ctx, postID); err != nil": the
\* error is logged and the loop goes on with the next claimed id
LogAndContinue_Abort(w) ==
  /\ wbatch' = [wbatch EXCEPT ![w] = <<>>]
  /\ wclaimed' = [wclaimed EXCEPT ![w] = <<>>]
  /\ wpc' = [wpc EXCEPT ![w] = "idle"]
  /\ wpost' = [wpost EXCEPT ![w] = NoPost]
  /\ wretry' = [wretry EXCEPT ![w] = 0]

LogAndContinue(w) == NextPost(w)

\* publishPost: the database or Redis call that it is about to make
\* (GetPostForRetry, PublishPost, MarkPostFailed or ScheduleRetry, Enqueue)
\* returns an error and does nothing; publishPost returns the error, which
\* is logged as "lost" when the call was the write that follows the publish
\* operation (PublishPost, MarkPostFailed or ScheduleRetry)
publishPostErr(w) ==
  /\ wpc[w] \in {"load", "mark", "error", "enqueue"}
  /\ Did(Head(wbatch[w]), IF wpc[w] \in {"mark", "error"} THEN "lost"
                          ELSE "error")
  /\ LogAndContinue(w)
  /\ UNCHANGED <<now, hvars, posts, nextId, queue, enqueued, wresults, greq,
                 execLog, delays, cancelled, nvars, qcall>>

\* posts are created and enqueued and the Workers run, with the publish
\* operation succeeding or failing and any call of publishPost returning an
\* error
NextFaulty ==
  \/ Tick
  \/ \E r \in RequestIds, t \in ScheduleChoices : Create(r, t)
  \/ \E r \in RequestIds : GoEnqueue(r)
  \/ \E w \in WorkerIds : GetDuePostsRange(w)
  \/ \E w \in WorkerIds : GetDuePostsZRem(w)
  \/ \E w \in WorkerIds : LoadPost(w)
  \/ \E w \in WorkerIds, ok \in BOOLEAN : mockPublish(w, ok)
  \/ \E w \in WorkerIds : MarkPublished(w)
  \/ \E w \in WorkerIds : InvalidateUserPosts(w)
  \/ \E w \in WorkerIds : WorkerNotify(w)
  \/ \E w \in WorkerIds : handlePublishError(w)
  \/ \E w \in WorkerIds : Reenqueue(w)
  \/ \E w \in WorkerIds : publishPostErr(w)

SpecFaulty == Init /\ [][NextFaulty]_vars

IsSuffix(s, t) ==
  Len(s) <= Len(t) /\ \A i \in DOMAIN s : s[i] = t[Len(t) - Len(s) + i]

InPublishPost(w) ==
  wpc[w] \in {"load", "publish", "mark", "invalidate", "notify", "error",
              "enqueue"}

\* C23: while a Worker is in a pass, the ids of the pass that it has not yet
\* passed to publishPost are the last ones of those its GetDuePosts call
\* returned, the one in hand first; whenever publishPost is over for an id,
\* with an error or without, the Worker takes the next of them, and the pass
\* ends only when none is left.
C23_ErrorDoesNotAbortBatch ==
  /\ [](\A w \in WorkerIds :
          /\ InPublishPost(w)
               => wbatch[w] # <<>> /\ IsSuffix(wbatch[w], wclaimed[w])
          /\ wpc[w] = "idle" => wbatch[w] = <<>>)
  /\ [][\A w \in WorkerIds :
          InPublishPost(w) /\ wbatch'[w] # wbatch[w]
            => /\ wbatch'[w] = Tail(wbatch[w])
               /\ wpc'[w] = IF wbatch'[w] = <<>> THEN "idle" ELSE "load"]_vars

\* a GetDuePosts call returned two ids; publishPost returned an error for the
\* first before the publish operation was invoked, and the Worker has gone
\* on to invoke the publish operation for the second
C23_Witness ==
  \E w \in WorkerIds :
    /\ Len(wclaimed[w]) = 2
    /\ wbatch[w] = <<wclaimed[w][2]>>
    /\ wpc[w] \in {"mark", "error"}
    /\ effects[wclaimed[w][1]] = <<"error">>
    /\ execLog[wclaimed[w][1]] = <<>>

\* ------------------------------------- the Queue when Redis is unreachable
\* A call is made while some of its Redis commands cannot reach the server:
\* fault holds 0 when the first command of the call fails (the ZADD of
\* Enqueue, the ZREM of Remove, the range read of GetDuePosts) and a member
\* when the ZREM of that member inside GetDuePosts fails.  A command that
\* fails returns an error and changes nothing.
RedisErr == <<"redis: connection refused">>

\* the loop of GetDuePosts: "if err != nil || removed == 0 { continue }"
RECURSIVE PopEachErr(_, _, _, _)
PopEachErr(q, results, postIDs, fault) ==
  IF results = <<>> THEN [ids |-> postIDs, queue |-> q, err |-> NULL]
  ELSE IF Head(results) \in fault
  THEN PopEachErr(q, Tail(results), postIDs, fault)
  ELSE PopEachErr(ZRem(q, Head(results)), Tail(results),
                  Claimed(q, Head(results), postIDs), fault)

\* "if err != nil { return nil, err }" after the range read, then the loop,
\* then "return postIDs, nil"
GetDuePostsErr(q, t, maxCount, fault) ==
  IF 0 \in fault THEN [ids |-> <<>>, queue |-> q, err |-> RedisErr]
  ELSE PopEachErr(q, ZRangeByScore(q, Unix(t), maxCount), <<>>, fault)

\* Enqueue, Update and Remove return the .Err() of their one command
QEnqueueErr(id, t) ==
  /\ qcall' = [NoQCall EXCEPT !.op = "Enqueue", !.id = id, !.at = t,
                              !.before = queue, !.time = now,
                              !.fault = {0}, !.err = RedisErr]
  /\ UNCHANGED <<now, hvars, posts, nextId, queue, enqueued, wvars, greq,
                 execLog, delays, effects, cancelled, nvars>>

QUpdateErr(id, t) ==
  /\ qcall' = [NoQCall EXCEPT !.op = "Update", !.id = id, !.at = t,
                              !.before = queue, !.time = now,
                              !.fault = {0}, !.err = RedisErr]
  /\ UNCHANGED <<now, hvars, posts, nextId, queue, enqueued, wvars, greq,
                 execLog, delays, effects, cancelled, nvars>>

QRemoveErr(id) ==
  /\ qcall' = [NoQCall EXCEPT !.op = "Remove", !.id = id,
                              !.before = queue, !.time = now,
                              !.fault = {0}, !.err = RedisErr]
  /\ UNCHANGED <<now, hvars, posts, nextId, queue, enqueued, wvars, greq,
                 execLog, delays, effects, cancelled, nvars>>

QGetDuePostsErr(maxCount, fault) ==
  /\ fault # {}
  /\ LET got == GetDuePostsErr(queue, now, maxCount, fault) IN
       /\ queue' = got.queue
       /\ qcall' = [NoQCall EXCEPT !.op = "GetDuePosts", !.limit = maxCount,
                                   !.ids = got.ids, !.before = queue,
                                   !.time = now, !.fault = fault,
                                   !.err = got.err]
  /\ UNCHANGED <<now, hvars, posts, nextId, enqueued, wvars, greq, execLog,
                 delays, effects, cancelled, nvars>>

\* the commands of a GetDuePosts call that can fail: the range read, or the
\* ZREM of a member that the range read returns
FaultChoices(maxCount) ==
  {{0}} \cup (SUBSET Range(ZRangeByScore(queue, Unix(now), maxCount)) \ {{}})

NextQueueErr ==
  \/ NextQueue
  \/ \E id \in PostIds, t \in Time : QEnqueueErr(id, t)
  \/ \E id \in PostIds, t \in Time : QUpdateErr(id, t)
  \/ \E id \in PostIds : QRemoveErr(id)
  \/ \E maxCount \in 1..MaxLimit :
       \E fault \in FaultChoices(maxCount) : QGetDuePostsErr(maxCount, fault)

SpecQueueErr == Init /\ [][NextQueueErr]_vars

\* C25: a call during which a Redis command failed returns an error, be the
\* command the one of Enqueue, Update or Remove, the range read of
\* GetDuePosts or a ZREM inside GetDuePosts.
C25_RedisFailureSurfaces ==
  qcall.fault # {} => qcall.err # NULL

\* ------------------------------------------- a malformed message on the bus
\* the payloads that json.Unmarshal rejects: bytes that are not JSON, and an
\* object whose user_id is not a UUID (written -1)
Malformed == {<<>>, <<-1, "update">>}

IsSkip(x) == x = "skip"

\* another Redis client publishes a malformed payload on post_updates; every
\* subscribed process receives it
PublishMalformed(data) ==
  /\ Len(SelectSeq(inbox[P1], LAMBDA d : ~WellFormed(d)))
       + Len(SelectSeq(rlog[P1], IsSkip)) < MaxMalformed
  /\ inbox' = [q \in Procs |-> Append(inbox[q], data)]
  /\ UNCHANGED <<now, hvars, posts, nextId, queue, enqueued, wvars, greq,
                 execLog, delays, effects, cancelled, subscribers, chans,
                 ncall, relay, panicked, qcall>>

NextBus ==
  \/ \E c \in Chans : Receive(c)
  \/ \E k \in NotifyIds, u \in Users : NotifyBegin(k, P1, u, NotifyType(k))
  \/ \E k \in NotifyIds : NotifySend(k)
  \/ \E k \in NotifyIds : Publish(k)
  \/ \E p \in Procs : RelayReceive(p)
  \/ \E p \in Procs : RelaySend(p)
  \/ \E data \in Malformed : PublishMalformed(data)

SpecBus == InitNotify /\ [][NextBus]_vars

\* C27: a relay that takes a malformed message leaves every channel and
\* every subscriber list as they were and is back at the bus; a relay is
\* always either at the bus or inside notifyLocal, and at the bus it takes
\* the next message whenever there is one; a well-formed message is relayed
\* to every local subscriber of its user, whatever was skipped before it.
C27_MalformedDropped ==
  /\ [](\A p \in Procs :
          /\ relay[p].pc \in {"recv", "send"}
          /\ relay[p].pc = "recv" /\ inbox[p] # <<>> => ENABLED RelayReceive(p))
  /\ [][\A p \in Procs :
          rlog'[p] # rlog[p]
            => LET data == Head(inbox[p])
                   list == Lookup(subscribers[p], data[1]) IN
                 /\ inbox'[p] = Tail(inbox[p])
                 /\ chans' = chans /\ subscribers' = subscribers
                 /\ IF data \in Malformed
                    THEN relay'[p] = Listening /\ rlog'[p] = Append(rlog[p], "skip")
                    ELSE /\ rlog'[p] = Append(rlog[p], "relay")
                         /\ IF list = <<>> THEN relay'[p] = Listening
                            ELSE /\ relay'[p].pc = "send"
                                 /\ relay'[p].subs = list
                                 /\ relay'[p].user = data[1]
                                 /\ relay'[p].type = data[2]]_vars

\* the relay of a process other than the publisher's has skipped a malformed
\* message, then relayed an event, which its subscriber holds
C27_Witness ==
  \E p \in Procs \ {P1} :
    /\ rlog[p] = <<"skip", "relay">>
    /\ relay[p].pc = "recv"
    /\ \E c \in Chans :
         /\ chans[c].state = "open" /\ chans[c].proc = p
         /\ chans[c].buf # <<>>
         /\ Last(chans[c].buf) # EarlierEvent(chans[c].user)

\* ------------------------------------------------------------ StreamPosts
Stamps == 0..MaxStamp

\* the rows that GetUpcomingPosts (status scheduled) and GetPublishedPosts
\* (status published) can return: what hashPosts reads of a row, updated_at
\* in ticks
StreamRows(status) == [id : PostIds, status : {status}, updated_at : Stamps]

Ids(list) == {list[i].id : i \in DOMAIN list}

ListsOf(status) ==
  {list \in UNION {[1..n -> StreamRows(status)] : n \in 0..NumPosts} :
     Cardinality(Ids(list)) = Len(list)}

\* what the two queries of one pass can return: no post is in both lists
Snapshots ==
  {snap \in ListsOf("scheduled") \X ListsOf("published") :
     Ids(snap[1]) \cap Ids(snap[2]) = {}}

Sprintf_NoStamp(p) == <<ToString(p.id), ":", p.status, ";">>

\* fmt.Sprintf("%s:%s:%d;", p.ID, p.Status, p.UpdatedAt.Unix())
Sprintf(p) ==
  <<ToString(p.id), ":", p.status, ":", ToString(Unix(p.updated_at)), ";">>

RECURSIVE Result(_)
Result(list) ==
  IF list = <<>> THEN <<>> ELSE Sprintf(Head(list)) \o Result(Tail(list))

\* hashPosts: "empty" for no posts, else the Sprintf of each post, one after
\* the other
hashPosts(list) == IF list = <<>> THEN <<"empty">> ELSE Result(list)

\* StreamPosts up to the loop: the connected event (a failed write returns),
\* the tickers, the first two queries (their errors are ignored and read as
\* no posts), the two hashes, the first update event
StreamConnect(s, u, wok, dbok, snap) ==
  /\ streams[s].pc = "new"
  /\ ~dbok => snap = NoLists
  /\ streams' = [streams EXCEPT ![s] =
       IF ~wok THEN [@ EXCEPT !.pc = "returned", !.user = u, !.did = "werr"]
       ELSE [@ EXCEPT !.pc = "loop", !.user = u, !.did = "connect",
                      !.lastUpcomingHash = hashPosts(snap[1]),
                      !.lastHistoryHash = hashPosts(snap[2]),
                      !.seen = snap, !.sent = snap]]
  /\ UNCHANGED <<now, ticker, wafter, rlog, mvars, posts, nextId, queue,
                 enqueued, wvars, greq, execLog, delays, effects, cancelled,
                 nvars, qcall>>

\* the 5 s ticker puts a tick in ticker.C (a channel of one; a tick that
\* finds it full is lost); a loop that waits in select with the request's
\* context done takes a case at once, before the ticker's next period
StreamTickerFire(s) ==
  /\ streams[s].pc = "loop" /\ ~streams[s].gone
  /\ ~streams[s].tick
  /\ streams' = [streams EXCEPT ![s].tick = TRUE]
  /\ UNCHANGED <<now, ticker, wafter, rlog, mvars, posts, nextId, queue,
                 enqueued, wvars, greq, execLog, delays, effects, cancelled,
                 nvars, qcall>>

\* the 10 s keepalive ticker
StreamKeepaliveFire(s) ==
  /\ streams[s].pc = "loop" /\ ~streams[s].gone
  /\ ~streams[s].keepalive
  /\ streams' = [streams EXCEPT ![s].keepalive = TRUE]
  /\ UNCHANGED <<now, ticker, wafter, rlog, mvars, posts, nextId, queue,
                 enqueued, wvars, greq, execLog, delays, effects, cancelled,
                 nvars, qcall>>

\* the cases other than Done taken since the context was done
Passes(st, what) == IF st.gone THEN Append(st.after, what) ELSE st.after

\* case <-ticker.C: the two queries (an error, which a done context always
\* gives, is "continue"), the two hashes, and when one of them differs from
\* the last the new hashes are kept and the update event is written (a failed
\* write returns)
StreamFetch(s, dbok, snap, wok) ==
  /\ streams[s].pc = "loop" /\ streams[s].tick
  /\ Len(streams[s].after) < MaxAfter
  /\ streams[s].gone => ~dbok
  /\ ~dbok => snap = NoLists /\ wok
  /\ LET st == [streams[s] EXCEPT !.tick = FALSE,
                                  !.after = Passes(streams[s], "fetch")]
         upcomingHash == hashPosts(snap[1])
         historyHash == hashPosts(snap[2]) IN
       streams' = [streams EXCEPT ![s] =
         IF ~dbok THEN [st EXCEPT !.did = "dberr"]
         ELSE IF upcomingHash # st.lastUpcomingHash
                 \/ historyHash # st.lastHistoryHash
              THEN IF wok
                   THEN [st EXCEPT !.lastUpcomingHash = upcomingHash,
                                   !.lastHistoryHash = historyHash,
                                   !.seen = snap, !.sent = snap,
                                   !.did = "push"]
                   ELSE [st EXCEPT !.lastUpcomingHash = upcomingHash,
                                   !.lastHistoryHash = historyHash,
                                   !.seen = snap, !.did = "werr",
                                   !.pc = "returned"]
              ELSE [st EXCEPT !.seen = snap, !.did = "same"]]
  /\ UNCHANGED <<now, ticker, wafter, rlog, mvars, posts, nextId, queue,
                 enqueued, wvars, greq, execLog, delays, effects, cancelled,
                 nvars, qcall>>

\* case <-keepaliveTicker.C: the keepalive comment (a failed write returns)
StreamKeepalive(s, wok) ==
  /\ streams[s].pc = "loop" /\ streams[s].keepalive
  /\ Len(streams[s].after) < MaxAfter
  /\ LET st == [streams[s] EXCEPT !.keepalive = FALSE,
                                  !.after = Passes(streams[s], "keepalive")] IN
       streams' = [streams EXCEPT ![s] =
         IF wok THEN [st EXCEPT !.did = "keepalive"]
         ELSE [st EXCEPT !.did = "werr", !.pc = "returned"]]
  /\ UNCHANGED <<now, ticker, wafter, rlog, mvars, posts, nextId, queue,
                 enqueued, wvars, greq, execLog, delays, effects, cancelled,
                 nvars, qcall>>

\* the client disconnects: the context of the request is done
Disconnect(s) ==
  /\ streams[s].pc = "loop" /\ ~streams[s].gone
  /\ streams' = [streams EXCEPT ![s].gone = TRUE]
  /\ UNCHANGED <<now, ticker, wafter, rlog, mvars, posts, nextId, queue,
                 enqueued, wvars, greq, execLog, delays, effects, cancelled,
                 nvars, qcall>>

\* case <-r.Context().Done(): return
StreamReturn(s) ==
  /\ streams[s].pc = "loop" /\ streams[s].gone
  /\ streams' = [streams EXCEPT ![s].pc = "returned", ![s].did = "done"]
  /\ UNCHANGED <<now, ticker, wafter, rlog, mvars, posts, nextId, queue,
                 enqueued, wvars, greq, execLog, delays, effects, cancelled,
                 nvars, qcall>>

NextStream ==
  \/ \E s \in Streams, u \in Users, wok, dbok \in BOOLEAN, snap \in Snapshots :
       StreamConnect(s, u, wok, dbok, snap)
  \/ \E s \in Streams : StreamTickerFire(s)
  \/ \E s \in Streams : StreamKeepaliveFire(s)
  \/ \E s \in Streams, dbok, wok \in BOOLEAN, snap \in Snapshots :
       StreamFetch(s, dbok, snap, wok)
  \/ \E s \in Streams, wok \in BOOLEAN : StreamKeepalive(s, wok)
  \/ \E s \in Streams : Disconnect(s)
  \/ \E s \in Streams : StreamReturn(s)

SpecStream == Init /\ [][NextStream]_vars

\* the id/status/update-timestamp triples of a list, and of the two lists
Triples(list) ==
  [i \in DOMAIN list |->
     <<list[i].id, list[i].status, Unix(list[i].updated_at)>>]

Fingerprint(snap) == <<Triples(snap[1]), Triples(snap[2])>>

\* C28: a pass of the loop that follows a tick and whose two queries succeed
\* writes an update event exactly when the triples of the two lists it
\* fetched differ from those of the lists pushed last (a failed write ends the
\* stream); what it pushes is what it fetched; and a pass that fetches lists
\* with the triples of the lists fetched just before writes nothing.
C28_FingerprintSuppression ==
  [][\A s \in Streams :
       LET old == streams[s]
           new == streams'[s] IN
         old.pc = "loop" /\ old.tick /\ ~new.tick
         /\ new.did \in {"push", "same", "werr"}
         => /\ new.did \in {"push", "werr"}
                 <=> Fingerprint(new.seen) # Fingerprint(old.sent)
            /\ new.did = "push" => new.sent = new.seen
            /\ new.did = "same" => new.sent = old.sent
            /\ Fingerprint(new.seen) = Fingerprint(old.seen)
                 => new.did = "same"]_vars

\* a pass has fetched lists that are not those pushed last (a timestamp has
\* changed within the same second) and has written nothing
C28_Witness ==
  \E s \in Streams :
    /\ streams[s].pc = "loop" /\ streams[s].did = "same"
    /\ streams[s].sent[1] # <<>>
    /\ streams[s].seen # streams[s].sent

\* ------------------------------------------- StreamPosts and the Notifier
\* SubscriberCount: len(n.subscribers[userID])
SubscriberCount(p, u) == Len(Lookup(subscribers[p], u))

\* the lists of a user with no post, and with one scheduled post
FewSnapshots ==
  {NoLists,
   <<<<[id |-> 1, status |-> "scheduled", updated_at |-> 0]>>, <<>>>>}

\* a StreamPosts request served by process P1 while Notify is called there;
\* StreamPosts does not call Subscribe, so notifyLocal never has a channel
\* to send on
NextAttach ==
  \/ \E s \in Streams, u \in Users, wok, dbok \in BOOLEAN,
        snap \in FewSnapshots : StreamConnect(s, u, wok, dbok, snap)
  \/ \E s \in Streams : StreamTickerFire(s)
  \/ \E s \in Streams : StreamKeepaliveFire(s)
  \/ \E s \in Streams, dbok, wok \in BOOLEAN, snap \in FewSnapshots :
       StreamFetch(s, dbok, snap, wok)
  \/ \E s \in Streams, wok \in BOOLEAN : StreamKeepalive(s, wok)
  \/ \E s \in Streams : Disconnect(s)
  \/ \E s \in Streams : StreamReturn(s)
  \/ \E k \in NotifyIds, u \in Users : NotifyBegin(k, P1, u, NotifyType(k))
  \/ \E k \in NotifyIds : Publish(k)
  \/ \E p \in Procs : RelayReceive(p)

SpecAttach == Init /\ [][NextAttach]_vars

Attached(s) == streams[s].pc = "loop" /\ ~streams[s].gone

\* C29: while a stream is attached for a user, the Notifier of its process
\* has a subscriber for that user, and a Notify call for that user finds a
\* channel to send its event on; when the stream has returned the user's
\* SubscriberCount is what it was before the stream, zero.
C29_StreamSubscribes ==
  /\ [](\A s \in Streams :
          /\ Attached(s) => SubscriberCount(P1, streams[s].user) >= 1
          /\ streams[s].pc = "returned"
               => SubscriberCount(P1, streams[s].user) = 0)
  /\ [][\A s \in Streams, k \in NotifyIds :
          /\ Attached(s)
          /\ ncall[k].pc = "new" /\ ncall'[k].pc # "new"
          /\ ncall'[k].user = streams[s].user
          => ncall'[k].pc = "send"]_vars

\* ------------------------------------------------ cancellation of the loops
SelectReady_Never(w) == FALSE

\* Run waits in select with ctx.Done() ready: it takes a case at once,
\* before the ticker's next period
SelectReady(w) == wpc[w] = "idle" /\ cancelled

\* the ticker of Run puts a tick in ticker.C (a channel of one; a tick that
\* finds it full is lost)
TickerFire(w) ==
  /\ wpc[w] # "stopped" /\ ~SelectReady(w)
  /\ ~ticker[w]
  /\ ticker' = [ticker EXCEPT ![w] = TRUE]
  /\ UNCHANGED <<now, wafter, rlog, streams, mvars, posts, nextId, queue,
                 enqueued, wvars, greq, execLog, delays, effects, cancelled,
                 nvars, qcall>>

\* Run: the pass of its start, or case <-ticker.C: w.processDuePosts(ctx);
\* with the context cancelled GetDuePosts fails and the pass is over at once
Run(w) ==
  /\ ticker[w]
  /\ wafter[w] < MaxAfter
  /\ processDuePosts(w)
  /\ ticker' = [ticker EXCEPT ![w] = FALSE]
  /\ wafter' = [wafter EXCEPT ![w] = IF cancelled THEN @ + 1 ELSE @]
  /\ UNCHANGED <<rlog, streams, mvars>>

\* the steps of a pass after its range read
PassStep(w) ==
  \/ GetDuePostsZRem(w)
  \/ LoadPost(w)
  \/ \E ok \in BOOLEAN : mockPublish(w, ok)
  \/ MarkPublished(w)
  \/ InvalidateUserPosts(w)
  \/ WorkerNotify(w)
  \/ handlePublishError(w)
  \/ Reenqueue(w)

\* the process whose Run and StreamPosts are watched has one Worker
Runners == {P1}

NextHalt ==
  \/ Cancel
  \/ \E w \in Runners : TickerFire(w)
  \/ \E w \in Runners : Run(w)
  \/ \E w \in Runners : PassStep(w)
  \/ \E w \in Runners : Stop(w)
  \/ \E s \in Streams, wok, dbok \in BOOLEAN :
       StreamConnect(s, P1, wok, dbok, NoLists)
  \/ \E s \in Streams : StreamTickerFire(s)
  \/ \E s \in Streams : StreamKeepaliveFire(s)
  \/ \E s \in Streams, dbok, wok \in BOOLEAN :
       StreamFetch(s, dbok, NoLists, wok)
  \/ \E s \in Streams, wok \in BOOLEAN : StreamKeepalive(s, wok)
  \/ \E s \in Streams : Disconnect(s)
  \/ \E s \in Streams : StreamReturn(s)

\* a goroutine that can take a step takes one; select takes a ready case,
\* and ctx.Done() stays ready
FairHalt ==
  /\ \A w \in Runners : WF_vars(PassStep(w)) /\ WF_vars(Stop(w))
  /\ \A s \in Streams : WF_vars(StreamReturn(s))

SpecHalt == InitPop /\ [][NextHalt]_vars /\ FairHalt

DurableWriteFailed(p) == \E i \in DOMAIN effects[p] : effects[p][i] = "lost"

\* C31: once the write that follows the publish operation of a post has
\* returned an error, the post has status scheduled and is not in the queue,
\* no Worker has it in hand once publishPost has returned, and from then on
\* no Worker invokes the publish operation for it or changes its row.
C31_FailedWriteLeavesPostOut ==
  /\ [](\A p \in PostIds :
          DurableWriteFailed(p)
            => /\ posts[p].status = "scheduled"
               /\ p \notin DOMAIN queue
               /\ ~Held(p))
  /\ [][\A p \in PostIds :
          DurableWriteFailed(p)
            => /\ execLog'[p] = execLog[p]
               /\ posts'[p] = posts[p]
               /\ (p \in DOMAIN queue') = (p \in DOMAIN queue)]_vars

\* the write after a publish operation of a post failed; the clock has run
\* to its end, every Worker is between passes, and the post is still
\* scheduled, past its time
C31_Witness ==
  \E p \in PostIds :
    /\ DurableWriteFailed(p)
    /\ execLog[p] # <<>>
    /\ now = MaxTime /\ posts[p].scheduled_at < now
    /\ \A w \in WorkerIds : wpc[w] = "idle"

\* ------------------------------------------------------------- RateLimiter
\* config.Window: time.Minute in every configuration
Window == Minute

\* the key is in Redis at time t: it was set and has not expired
Live(c, t) == c.count > 0 /\ (c.expires = NULL \/ t < c.expires[1])

\* INCR key: a key that is not there starts at 1, without expiration
Incr(c, t) ==
  IF Live(c, t) THEN [c EXCEPT !.count = @ + 1, !.hits = @ + 1]
  ELSE [count |-> 1, expires |-> NULL, started |-> t, hits |-> c.hits + 1]

\* EXPIRE key window: the key expires one window from now, whatever its
\* expiration was
Expire(c, t) == [c EXCEPT !.expires = <<t + Window>>]

Allowed_Loose(count) == count <= Limit + 1

\* checkRateLimit: count <= config.Limit
Allowed(count) == count <= Limit

\* what can go wrong with the pipeline: Redis is not reachable, the EXPIRE
\* fails after the INCR, or the reply is lost after both
PipelineFaults == {"down", "expire", "reply"}

\* RateLimiter: one request for the key; checkRateLimit runs INCR and EXPIRE
\* in a pipeline; an error answers 503, a count above the limit 429, and
\* otherwise the request goes on to the handler
RateLimiter(k, fault) ==
  /\ counters[k].hits < MaxHits
  /\ LET c == counters[k]
         after == IF fault = "down" THEN [c EXCEPT !.hits = @ + 1]
                  ELSE IF fault = "expire" THEN Incr(c, now)
                  ELSE Expire(Incr(c, now), now)
         err == fault \in PipelineFaults
         answer == IF err THEN 503
                   ELSE IF Allowed(after.count) THEN 200 ELSE 429 IN
       /\ counters' = [counters EXCEPT ![k] = after]
       /\ served' = [served EXCEPT ![k] =
                       IF answer = 200 THEN Append(@, now) ELSE @]
       /\ rlcall' = [key |-> k, at |-> now, answer |-> answer,
                     count |-> after.count, err |-> err]
  /\ UNCHANGED <<now, ticker, wafter, rlog, streams, blacklist, pairs, acall,
                 posts, nextId, queue, enqueued, wvars, greq, execLog,
                 delays, effects, cancelled, nvars, qcall>>

RateTick == TickTo(MaxRateTime)

NextRate ==
  \/ RateTick
  \/ \E k \in RateKeys, fault \in PipelineFaults \cup {"none"} :
       RateLimiter(k, fault)

SpecRate == Init /\ [][NextRate]_vars

\* the requests of key k passed on to the handler in the window from t
PassedIn(k, t) ==
  {i \in DOMAIN served[k] : t <= served[k][i] /\ served[k][i] < t + Window}

\* C32: for every key and every window, at most Limit requests have been
\* passed on to the handler; the request that went last was passed on only
\* when the pipeline returned no error and the counter was at most Limit,
\* was answered 429 when the counter was above Limit, and 503 when the
\* pipeline returned an error; and only a request answered 200 is passed on.
C32_AtMostLimitPerWindow ==
  /\ [](\A k \in RateKeys, t \in 0..MaxRateTime :
          Cardinality(PassedIn(k, t)) <= Limit)
  /\ [](rlcall.key # 0
          => /\ rlcall.err <=> rlcall.answer = 503
             /\ rlcall.answer = 200 <=> ~rlcall.err /\ rlcall.count <= Limit
             /\ rlcall.answer = 429 <=> ~rlcall.err /\ rlcall.count > Limit)
  /\ [][\A k \in RateKeys :
          served'[k] # served[k]
            => /\ rlcall'.key = k /\ rlcall'.answer = 200
               /\ served'[k] = Append(served[k], now)]_vars

\* a key has had Limit requests passed on and a further one answered 429 in
\* the same window, and a request answered 503 after a pipeline error
C32_Witness ==
  \E k \in RateKeys :
    /\ \E t \in 0..MaxRateTime : Cardinality(PassedIn(k, t)) = Limit
    /\ rlcall.key = k /\ rlcall.answer = 429
    /\ \E j \in RateKeys : j # k /\ counters[j].hits > Len(served[j])

\* the claim as it stands: the expiration of a key is one window after the
\* request that created it, and no request made after that time is answered
\* 429 on the count of that window
C38_WindowFromFirstRequest ==
  /\ [](\A k \in RateKeys :
          Live(counters[k], now) /\ counters[k].expires # NULL
            => counters[k].expires[1] = counters[k].started + Window)
  /\ [](rlcall.answer = 429
          => rlcall.at < counters[rlcall.key].started + Window)

\* ------------------------------------------------------------- JWTService
\* the secret of this service, and a secret that is not its own
SecretKey == "secret"

OtherKey == "other"

\* the e-mail address in the users row
EmailOf(u) == "user" \o ToString(u) \o "@example.com"

\* jwt.NewNumericDate: the time truncated to the second
NewNumericDate(t) == t - (t % TicksPerSecond)

\* uuid.NewString() of the n-th pair: fresh identifiers
AccessJTI(n) == 2 * n - 1

RefreshJTI(n) == 2 * n

\* the HMAC signature of header and claims under a key
SignedString(key, alg, claims) == [key |-> key, alg |-> alg, claims |-> claims]

NoClaims == [UserID |-> 0, Email |-> "", ExpiresAt |-> 0, IssuedAt |-> 0,
             ID |-> 0]

\* a string that is not a token of three parts
NoToken == [parts |-> 0, alg |-> "", claims |-> NoClaims,
            sig |-> SignedString("", "", NoClaims)]

\* jwt.NewWithClaims(jwt.SigningMethodHS256, claims).SignedString(key)
NewWithClaims(key, claims) ==
  [parts |-> 3, alg |-> "HS256", claims |-> claims,
   sig |-> SignedString(key, "HS256", claims)]

\* GenerateTokenPair: the n-th pair, made at time t; the refresh claims
\* carry no Email
GenerateTokenPair(key, userID, email, t, n) ==
  [AccessToken |-> NewWithClaims(key,
     [UserID |-> userID, Email |-> email,
      ExpiresAt |-> NewNumericDate(t + AccessTokenTTL),
      IssuedAt |-> NewNumericDate(t), ID |-> AccessJTI(n)]),
   RefreshToken |-> NewWithClaims(key,
     [UserID |-> userID, Email |-> "",
      ExpiresAt |-> NewNumericDate(t + RefreshTokenTTL),
      IssuedAt |-> NewNumericDate(t), ID |-> RefreshJTI(n)]),
   AccessJTI |-> AccessJTI(n), RefreshJTI |-> RefreshJTI(n)]

SigningMethodHMAC == {"HS256", "HS384", "HS512"}

ValidateToken_Unverified(key, tok, t) ==
  IF tok.parts # 3 \/ tok.alg \notin SigningMethodHMAC
  THEN [claims |-> NoClaims, err |-> "ErrInvalidToken"]
  ELSE IF ~(t < tok.claims.ExpiresAt)
  THEN [claims |-> NoClaims, err |-> "ErrExpiredToken"]
  ELSE [claims |-> tok.claims, err |-> ""]

\* ValidateToken at time t: ParseWithClaims splits the string, asks the key
\* function (HMAC methods only), verifies the signature and then the claims
\* (expired unless now is before exp)
ValidateToken(key, tok, t) ==
  IF tok.parts # 3 \/ tok.alg \notin SigningMethodHMAC
  THEN [claims |-> NoClaims, err |-> "ErrInvalidToken"]
  ELSE IF tok.sig # SignedString(key, tok.alg, tok.claims)
  THEN [claims |-> NoClaims, err |-> "ErrInvalidToken"]
  ELSE IF ~(t < tok.claims.ExpiresAt)
  THEN [claims |-> NoClaims, err |-> "ErrExpiredToken"]
  ELSE [claims |-> tok.claims, err |-> ""]

\* ---------------------------------------------------------------- Blacklist
\* IsBlacklisted: EXISTS blacklist:<jti>, a key that expires with its ttl
IsBlacklisted(jti, t) == \E b \in blacklist : b.jti = jti /\ t < b.until

\* Add: SET blacklist:<jti> 1 with the ttl
Add(jti, t, ttl) ==
  {b \in blacklist : b.jti # jti} \cup {[jti |-> jti, until |-> t + ttl]}

\* ------------------------------------------------------- AuthHandler, Auth
\* an auth request that has not been made
NoAuthCall == [op |-> "new", pc |-> "new", token |-> NoToken, session |-> 0,
               claims |-> NoClaims, err |-> "", answer |-> 0, at |-> 0,
               issued |-> 0]

\* what a client can put in a cookie: the tokens it was given, an access
\* token with the signature of another secret, with claims changed after
\* signing, with no signature method, and a string that is no token
Forged(tok) ==
  {NewWithClaims(OtherKey, tok.claims),
   [tok EXCEPT !.claims.ExpiresAt = @ + MaxAuthTime],
   [tok EXCEPT !.alg = "none"]}

Presented ==
  UNION {{pairs[i].tokens.AccessToken, pairs[i].tokens.RefreshToken}
           \cup Forged(pairs[i].tokens.AccessToken) : i \in DOMAIN pairs}
    \cup {NoToken}

authFrame ==
  UNCHANGED <<now, ticker, wafter, rlog, streams, counters, served, rlcall,
              posts, nextId, queue, enqueued, wvars, greq, execLog, delays,
              effects, cancelled, nvars, qcall>>

\* Login of user u with the right password: a new pair in the cookies
Login(u) ==
  /\ Len(pairs) < MaxPairs
  /\ pairs' = Append(pairs,
       [user |-> u, email |-> EmailOf(u), at |-> now, parent |-> 0,
        tokens |-> GenerateTokenPair(SecretKey, u, EmailOf(u), now,
                                     Len(pairs) + 1)])
  /\ UNCHANGED <<blacklist, acall>>
  /\ authFrame

\* Auth: the middleware of the protected routes, on the access_token cookie
Auth(tok) ==
  /\ Len(acall) < NumAuthCalls
  /\ LET v == ValidateToken(SecretKey, tok, now) IN
       acall' = Append(acall,
         [NoAuthCall EXCEPT !.op = "auth", !.pc = "done", !.token = tok,
            !.claims = v.claims, !.err = v.err, !.at = now,
            !.answer = IF v.err = "" THEN 200 ELSE 401])
  /\ UNCHANGED <<blacklist, pairs>>
  /\ authFrame

\* Logout with the cookies of pair i: the refresh token goes on the
\* blacklist when it validates; the error of Add is dropped
Logout(i, ok) ==
  /\ Len(acall) < NumAuthCalls
  /\ LET tok == pairs[i].tokens.RefreshToken
         v == ValidateToken(SecretKey, tok, now)
         ttl == v.claims.ExpiresAt - now IN
       /\ blacklist' = IF v.err = "" /\ v.claims.ID # 0 /\ ttl > 0 /\ ok
                       THEN Add(v.claims.ID, now, ttl) ELSE blacklist
       /\ acall' = Append(acall,
            [NoAuthCall EXCEPT !.op = "logout", !.pc = "done", !.token = tok,
               !.session = i, !.claims = v.claims, !.err = v.err,
               !.at = now, !.answer = 200])
  /\ UNCHANGED pairs
  /\ authFrame

\* Refresh with the refresh_token cookie of pair i, up to the blacklist check
RefreshCheck(i, ok) ==
  /\ Len(acall) < NumAuthCalls
  /\ LET tok == pairs[i].tokens.RefreshToken
         v == ValidateToken(SecretKey, tok, now)
         revoked == ~ok \/ IsBlacklisted(v.claims.ID, now)
         go == v.err = "" /\ ~revoked IN
       acall' = Append(acall,
         [NoAuthCall EXCEPT !.op = "refresh", !.token = tok, !.session = i,
            !.pc = IF go THEN "add" ELSE "done",
            !.claims = v.claims, !.err = v.err, !.at = now,
            !.answer = IF go THEN 0 ELSE 401])
  /\ UNCHANGED <<blacklist, pairs>>
  /\ authFrame

\* Refresh: the old refresh token goes on the blacklist; the error of Add is
\* dropped
RefreshAdd(c, ok) ==
  /\ acall[c].op = "refresh" /\ acall[c].pc = "add"
  /\ LET ttl == acall[c].claims.ExpiresAt - now IN
       blacklist' = IF ttl > 0 /\ ok THEN Add(acall[c].claims.ID, now, ttl)
                    ELSE blacklist
  /\ acall' = [acall EXCEPT ![c].pc = "issue"]
  /\ UNCHANGED pairs
  /\ authFrame

\* Refresh: GetUserByID, then a new pair in the cookies
RefreshIssue(c, dbok) ==
  /\ acall[c].op = "refresh" /\ acall[c].pc = "issue"
  /\ Len(pairs) < MaxPairs
  /\ LET u == acall[c].claims.UserID IN
       IF dbok
       THEN /\ pairs' = Append(pairs,
                 [user |-> u, email |-> EmailOf(u), at |-> now,
                  parent |-> acall[c].session,
                  tokens |-> GenerateTokenPair(SecretKey, u, EmailOf(u), now,
                                               Len(pairs) + 1)])
            /\ acall' = [acall EXCEPT ![c].pc = "done", ![c].answer = 200,
                           ![c].at = now, ![c].issued = Len(pairs) + 1]
       ELSE /\ acall' = [acall EXCEPT ![c].pc = "done", ![c].answer = 401,
                           ![c].at = now]
            /\ UNCHANGED pairs
  /\ UNCHANGED blacklist
  /\ authFrame

AuthTick == TickTo(MaxAuthTime)

NextAuth ==
  \/ AuthTick
  \/ \E u \in Users : Login(u)
  \/ \E tok \in Presented : Auth(tok)
  \/ \E i \in DOMAIN pairs, ok \in BOOLEAN : Logout(i, ok)
  \/ \E i \in DOMAIN pairs, ok \in BOOLEAN : RefreshCheck(i, ok)
  \/ \E c \in DOMAIN acall, ok \in BOOLEAN : RefreshAdd(c, ok)
  \/ \E c \in DOMAIN acall, dbok \in BOOLEAN : RefreshIssue(c, dbok)

SpecAuth == Init /\ [][NextAuth]_vars

\* the tokens of pair i and their expiry, from what GenerateTokenPair was
\* given
TokenOf(i, kind) ==
  IF kind = "access" THEN pairs[i].tokens.AccessToken
  ELSE pairs[i].tokens.RefreshToken

ExpiryOf(i, kind) ==
  NewNumericDate(pairs[i].at
    + (IF kind = "access" THEN AccessTokenTTL ELSE RefreshTokenTTL))

Issued == {TokenOf(i, kind) : i \in DOMAIN pairs, kind \in {"access", "refresh"}}

\* what call c of the middleware got from ValidateToken for the token of
\* pair i, when that token's claims are to carry the given email
RoundTrip(c, i, kind, email) ==
  acall[c].token = TokenOf(i, kind)
    => IF acall[c].at < ExpiryOf(i, kind)
       THEN /\ acall[c].err = ""
            /\ acall[c].claims.UserID = pairs[i].user
            /\ acall[c].claims.Email = email
       ELSE acall[c].err = "ErrExpiredToken"

\* the claim as it stands: either token of a pair gives back the user id and
\* the email the pair was made for
C34_ValidateRoundTrip ==
  \A c \in DOMAIN acall : acall[c].op = "auth" =>
    /\ \A i \in DOMAIN pairs, kind \in {"access", "refresh"} :
         RoundTrip(c, i, kind, pairs[i].email)
    /\ acall[c].token \notin Issued => acall[c].err = "ErrInvalidToken"

\* C34: ValidateToken with the secret of GenerateTokenPair, on a token of a
\* pair before its expiry (issue time plus TTL, truncated to the second),
\* returns claims with the pair's user id, and with the pair's email for the
\* access token and an empty email for the refresh token; from the expiry on
\* it returns ErrExpiredToken; for a string that is no token, a token signed
\* with another secret, with claims changed after signing or with a method
\* that is not HMAC it returns ErrInvalidToken.
C34_ValidateRoundTripAccess ==
  \A c \in DOMAIN acall : acall[c].op = "auth" =>
    /\ \A i \in DOMAIN pairs :
         /\ RoundTrip(c, i, "access", pairs[i].email)
         /\ RoundTrip(c, i, "refresh", "")
    /\ acall[c].token \notin Issued => acall[c].err = "ErrInvalidToken"

\* the middleware has validated a refresh token before its expiry, and an
\* access token that had expired
C34_Witness ==
  \E c, d \in DOMAIN acall, i, j \in DOMAIN pairs :
    /\ acall[c].op = "auth" /\ acall[c].token = TokenOf(i, "refresh")
    /\ acall[c].err = "" /\ acall[c].claims.Email = ""
    /\ acall[d].op = "auth" /\ acall[d].token = TokenOf(j, "access")
    /\ acall[d].err = "ErrExpiredToken"

\* the claim as it stands: once Logout has answered for the cookies of a
\* pair, both tokens of the pair are on the blacklist until they expire, the
\* middleware answers 401 to the access token and Refresh does not accept
\* the refresh token
C33_LogoutRevokes ==
  \A c \in DOMAIN acall : acall[c].op = "logout" =>
    LET i == acall[c].session IN
      /\ \A kind \in {"access", "refresh"} :
           now < ExpiryOf(i, kind)
             => IsBlacklisted(TokenOf(i, kind).claims.ID, now)
      /\ \A d \in DOMAIN acall : d > c =>
           /\ acall[d].op = "auth" /\ acall[d].token = TokenOf(i, "access")
                => acall[d].answer = 401
           /\ acall[d].op = "refresh" /\ acall[d].session = i
                => acall[d].answer # 200

\* the claim as it stands: of the Refresh calls presenting the refresh token
\* of one pair at most one is answered 200, and at most one pair is issued
\* from it
C37_RefreshSingleUse ==
  \A i \in DOMAIN pairs :
    /\ Cardinality({c \in DOMAIN acall :
                      /\ acall[c].op = "refresh" /\ acall[c].session = i
                      /\ acall[c].answer = 200}) <= 1
    /\ Cardinality({j \in DOMAIN pairs : pairs[j].parent = i}) <= 1

\* ------------------------------------------------ due time and retry bound
\* the time a post is due: next_retry_at once a retry is scheduled,
\* scheduled_at before
DueAt(post) ==
  IF post.next_retry_at # NULL THEN post.next_retry_at[1]
  ELSE post.scheduled_at

\* the claim as it stands: whenever the publish operation is invoked for a
\* post, the post's due time has come (in whole seconds, as the queue scores
\* it)
C35_NeverBeforeDue ==
  [][\A p \in PostIds :
       execLog'[p] # execLog[p] => Unix(DueAt(posts[p])) <= Unix(now)]_vars

\* the claim as it stands: the publish operation is invoked for a post that
\* is not in a terminal state at most MaxRetries times, and a Worker goes on
\* to publish only a post it loaded as scheduled
C36_BoundedRetryLoop ==
  [][/\ \A p \in PostIds :
          execLog'[p] # execLog[p] /\ posts[p].status = "scheduled"
            => Len(execLog'[p]) <= MaxRetries
     /\ \A w \in WorkerIds :
          wpc[w] = "load" /\ wpc'[w] = "publish"
            => posts[Head(wbatch[w])].status = "scheduled"]_vars

\* ------------------------------------------- one event per Notify and post
\* the events of type t in the buffer of channel c
EventsOf(c, t) == {i \in DOMAIN chans[c].buf : chans[c].buf[i].type = t}

\* the claim as it stands: the buffer of a subscriber never holds more
\* events of a type than Notify was called with that type (the events
\* that were in the buffers before are of another type), so one Notify call
\* puts an event in a buffer once, not twice
C39_OneEventPerNotify ==
  \A c \in Chans, t \in {NotifyType(k) : k \in NotifyIds} :
    Cardinality(EventsOf(c, t))
      <= Cardinality({k \in NotifyIds :
                        ncall[k].pc # "new" /\ NotifyType(k) = t})

\* the places in the log of post p where a Worker did what
Places(p, what) == {i \in DOMAIN effects[p] : effects[p][i] = what}

\* C40: for every post the Workers together emit at most one publish
\* notification and invalidate the owner's lists at most once, both only
\* after the row was set to published; and a Worker whose PublishPost finds
\* the row no longer scheduled goes on to the next post of its batch with
\* nothing invalidated and nothing emitted.
C40_OnePublishNotification ==
  /\ [](\A p \in PostIds :
          /\ Cardinality(Places(p, "notify")) <= 1
          /\ Cardinality(Places(p, "invalidate")) <= 1
          /\ \A i \in Places(p, "notify") \cup Places(p, "invalidate") :
               \E j \in Places(p, "published") : j < i)
  /\ [][\A w \in WorkerIds :
          /\ wpc[w] = "mark" /\ wpc'[w] # wpc[w]
          /\ posts[Head(wbatch[w])].status # "scheduled"
          => /\ effects' = effects
             /\ posts' = posts
             /\ wpc'[w] \notin {"invalidate", "notify"}
             /\ wbatch'[w] = Tail(wbatch[w])]_vars

\* two Workers have executed the same post with success and are done with
\* it, and one publish notification was emitted for it
C40_Witness ==
  \E p \in PostIds :
    /\ Len(execLog[p]) = 2 /\ Fails(execLog[p]) = 0
    /\ Cardinality(Places(p, "notify")) = 1
    /\ posts[p].status = "published"
    /\ \A w \in WorkerIds : wpc[w] = "idle"

====
